---------------------------- MODULE Spec2Model ----------------------------
(***************************************************************************)
(* A state-machine model of the xlog logging engine:                       *)
(*   - the Logger dispatcher of src/xlog.go (registry, initialisation,     *)
(*     defaults, severity masks and order lists, the write path);          *)
(*   - the recorder actor of src/rec_direct.go (second draft, the one with *)
(*     channels and a reference counter) and of the syslog recorder in     *)
(*     src/unnamed/part_001, which share one Listen loop;                  *)
(*   - BatchResult of src/errors.go.                                       *)
(*                                                                         *)
(* Caller tasks (goroutines calling the Logger) and recorder listeners are *)
(* interleaved.  A Logger call that can block (on the RWMutex, on a        *)
(* channel send, on the Init reply) is split at its blocking points.       *)
(***************************************************************************)
EXTENDS Integers, Sequences, FiniteSets, TLC

(***************************************************************************)
(* Bounds of the model.                                                    *)
(***************************************************************************)
\* number of Logger / user calls explored in one behaviour of Spec
MaxOps == 3
\* the same for SpecWrite
WriteOps == 4
\* the same for SpecInit
InitOps == 5
\* the same for SpecShare
ShareOps == 6
\* modelled capacity of a recorder's control channel (the code makes 32)
CtlCap == 2
\* modelled capacity of a recorder's message channel (the code makes 64)
MsgCap == 2

(***************************************************************************)
(* MsgFlagT: a 16-bit flag word (src/xlog.go:30-66).                       *)
(***************************************************************************)
Emerg    == 1
Alert    == 2
Critical == 4
Error    == 8
Warning  == 16
Notice   == 32
Info     == 64
Debug    == 128
CustomB1 == 4096
CustomB2 == 8192
StackTrace      == 256
StackTraceShort == 2048
CustomB3 == 16384
CustomB4 == 32768
\* 0xCF00
SeverityShadowMask == 52992
\* 0x30FF
SeverityAll == 12543
defaultSeverity == Info
\* the largest uint16 value
MaxFlag == 65535

RECURSIVE BitAnd(_, _)
BitAnd(a, b) ==
    IF a = 0 \/ b = 0 THEN 0
    ELSE (a % 2) * (b % 2) + 2 * BitAnd(a \div 2, b \div 2)

BitOr(a, b) == a + b - BitAnd(a, b)

\* Go's  a &^ b
BitAndNot(a, b) == a - BitAnd(a, b)

\* Go's  ^a  on a uint16
BitNot(a) == MaxFlag - a

defaultSeverityOrder ==
    << Emerg, Alert, Critical, Error, Warning, Notice, Info, Debug,
       CustomB1, CustomB2 >>

(***************************************************************************)
(* The universe of the model.                                              *)
(***************************************************************************)
Loggers == {"L1", "L2"}
Recs    == {"r1", "r2"}
Tasks   == {"t1", "t2"}

\* A RecorderInterface is the pair of channels of one recorder; NilIntrf
\* is the zero value, whose channels are nil.
NilIntrf == "nil"

\* interfaces with one nil channel: ChCtl nil, and ChMsg nil
NilCtlIntrf == "nil-ctl"
NilMsgIntrf == "nil-msg"

\* intrf.ChCtl == nil || intrf.ChMsg == nil   (src/xlog.go:357)
HasNilChannel(intrf) == intrf \in {NilIntrf, NilCtlIntrf, NilMsgIntrf}

\* r1 is an ioDirectRecorder, r2 a syslogRecorder (its sink open can fail)
RecKind(r) == IF r = "r2" THEN "syslog" ELSE "io"

EmptyMap == [x \in {} |-> "nil"]

MapPut(m, k, v) == (k :> v) @@ m

MapDel(m, k) == [x \in DOMAIN m \ {k} |-> m[x]]

Range(s) == { s[i] : i \in DOMAIN s }

Perms(S) ==
    { s \in [1..Cardinality(S) -> S] : \A i, j \in 1..Cardinality(S) : i # j => s[i] # s[j] }

\* Go's  s[i] = s[len(s)-1]; s[len(s)-1] = ""; s = s[:len(s)-1]   (i is 1-based)
SwapRemove(s, i) == SubSeq([s EXCEPT ![i] = s[Len(s)]], 1, Len(s) - 1)

\* index of the first element of s equal to x, 0 if there is none
RECURSIVE IndexFrom(_, _, _)
IndexFrom(s, x, i) ==
    IF i > Len(s) THEN 0
    ELSE IF s[i] = x THEN i
    ELSE IndexFrom(s, x, i + 1)

IndexOf(s, x) == IndexFrom(s, x, 1)

(***************************************************************************)
(* Error values (src/errors.go:9-47) and BatchResult (src/errors.go:55-129)*)
(***************************************************************************)
ErrVal(k) == [kind |-> k, errors |-> EmptyMap, successful |-> << >>]

Nil == ErrVal("nil")

NewBatchResult == [errors |-> EmptyMap, successful |-> << >>]

BrFail(br, rec, err) ==
    LET i == IndexOf(br.successful, rec)
    IN  [errors     |-> MapPut(br.errors, rec, err),
         successful |-> IF i = 0 THEN br.successful
                        ELSE SwapRemove(br.successful, i)]

\* an OK that leaves the failure map alone
BrOKKeepsError(br, rec) ==
    IF IndexOf(br.successful, rec) # 0 THEN br
    ELSE [errors |-> br.errors, successful |-> Append(br.successful, rec)]

BrOK(br, rec) ==
    IF IndexOf(br.successful, rec) # 0 THEN br
    ELSE [errors     |-> MapDel(br.errors, rec),
          successful |-> Append(br.successful, rec)]

\* GetErrors() returns nil when the map is empty
BrGetErrors(br) == br.errors

\* Error() (src/errors.go:61-74): the fixed text when there is no failure,
\* else the message followed by the failed ids
BrError(br) ==
    IF DOMAIN br.errors = {}
    THEN [text |-> "successful, no errors", recs |-> {}]
    ELSE [text |-> "errMessage", recs |-> DOMAIN br.errors]

\* the value a Logger method returns for an accumulated BatchResult
BrReturn(br) ==
    IF DOMAIN BrGetErrors(br) # {}
    THEN [kind |-> "BatchResult", errors |-> br.errors, successful |-> br.successful]
    ELSE Nil


(***************************************************************************)
(* Pure helpers of the Logger.                                             *)
(***************************************************************************)
\* Logger.severityProtector (src/xlog.go:975-992).  A nil list is << >>.
RECURSIVE ProtectorScan(_, _, _)
ProtectorScan(orderlist, flags, i) ==
    IF i > Len(orderlist)
    THEN [err |-> "panic", flags |-> flags]
    ELSE IF BitAnd(BitAndNot(flags, SeverityShadowMask), orderlist[i]) > 0
    THEN [err   |-> "nil",
          flags |-> BitOr(BitAndNot(flags, BitNot(SeverityShadowMask)), orderlist[i])]
    ELSE ProtectorScan(orderlist, flags, i + 1)

\* a protector that finds a flag and forgets to reset the others
severityProtectorNoReset(orderlist, flags) == [err |-> "nil", flags |-> flags]

severityProtector(orderlist, flags) ==
    IF Len(orderlist) = 0
    THEN [err |-> "InternalError", flags |-> flags]
    ELSE ProtectorScan(orderlist, flags, 1)

\* a filter that lets every severity through
SeverityFilterOpen(flags, sevMask) == TRUE

\* the severity filter of WriteMsg (src/xlog.go:952)
SeverityFilter(flags, sevMask) ==
    BitAnd(BitAndNot(flags, SeverityShadowMask), sevMask) > 0

\* a default-severity step that takes Debug for the default
NormaliseSeverityDebug(flags) ==
    IF BitAndNot(flags, SeverityShadowMask) = 0
    THEN BitOr(flags, Debug)
    ELSE flags

\* the default-severity step of WriteMsg (src/xlog.go:937-939)
NormaliseSeverity(flags) ==
    IF BitAndNot(flags, SeverityShadowMask) = 0
    THEN BitOr(flags, defaultSeverity)
    ELSE flags

\* a stack-trace step that does not look at the flags
AttachStackTraceAlways(flags, content) == Append(content, "stack-full")

\* the stack-trace step of WriteMsg (src/xlog.go:912-934): the content is a
\* sequence of text parts, the trace block is one more part
AttachStackTrace(flags, content) ==
    IF BitAnd(flags, StackTraceShort) > 0 THEN Append(content, "stack-short")
    ELSE IF BitAnd(flags, StackTrace) > 0 THEN Append(content, "stack-full")
    ELSE content

\* The validation loop shared by WriteMsg, DefaultsSet, DefaultsAdd and
\* DefaultsRemove (src/xlog.go:897-906, 600-610, 636-644, 681-689):
\*     for i, recID := range recorders { if !exist { Fail; swap-remove } }
\* Go evaluates the range expression once: the loop runs over the original
\* length and reads the backing array arr, while the slice (arr[:len])
\* shrinks.  Indexing the shrunk slice at i >= len panics.
RECURSIVE RangeRemove(_, _, _)
RangeRemove(st, regs, markOk) ==
    IF st.panic \/ st.i > Len(st.arr) THEN st
    ELSE LET recID == st.arr[st.i]
         IN  IF recID \notin regs
             THEN IF st.i > st.len
                  THEN [st EXCEPT !.panic = TRUE,
                                  !.br = BrFail(st.br, recID, "ErrWrongRecorderID")]
                  ELSE RangeRemove(
                         [arr   |-> [st.arr EXCEPT ![st.i] = st.arr[st.len],
                                                   ![st.len] = ""],
                          len   |-> st.len - 1,
                          i     |-> st.i + 1,
                          br    |-> BrFail(st.br, recID, "ErrWrongRecorderID"),
                          panic |-> FALSE], regs, markOk)
             ELSE RangeRemove(
                    [st EXCEPT !.i = st.i + 1,
                               !.br = IF markOk THEN BrOK(st.br, recID) ELSE st.br],
                    regs, markOk)

ValidateRecorders(list, regs, markOk) ==
    LET st == RangeRemove([arr |-> list, len |-> Len(list), i |-> 1,
                           br |-> NewBatchResult, panic |-> FALSE], regs, markOk)
    IN  [list |-> SubSeq(st.arr, 1, st.len), br |-> st.br, panic |-> st.panic]

\* UnregisterRecorder's removal from defaults (src/xlog.go:466-473): the
\* first occurrence only
RemoveFirst(s, x) ==
    LET i == IndexOf(s, x) IN IF i = 0 THEN s ELSE SwapRemove(s, i)

\* DefaultsAdd's second loop (src/xlog.go:646-657)
RECURSIVE AddDefaults(_, _, _)
AddDefaults(defs, list, br) ==
    IF list = << >> THEN [defs |-> defs, br |-> br]
    ELSE IF IndexOf(defs, Head(list)) # 0
    THEN AddDefaults(defs, Tail(list), br)
    ELSE AddDefaults(Append(defs, Head(list)), Tail(list), BrOK(br, Head(list)))

\* DefaultsRemove's inner loop (src/xlog.go:693-700): ranges over the
\* backing array of the defaults as it was when the loop began
RECURSIVE RemoveScan(_, _, _, _, _)
RemoveScan(arr, len, i, recID, br) ==
    IF i > Len(arr) THEN [defs |-> SubSeq(arr, 1, len), br |-> br]
    ELSE IF arr[i] = recID /\ i <= len
    THEN RemoveScan([arr EXCEPT ![i] = arr[len], ![len] = ""], len - 1, i + 1,
                    recID, BrOK(br, recID))
    ELSE RemoveScan(arr, len, i + 1, recID, br)

RECURSIVE RemoveDefaults(_, _, _)
RemoveDefaults(defs, list, br) ==
    IF list = << >> THEN [defs |-> defs, br |-> br]
    ELSE LET r == RemoveScan(defs, Len(defs), 1, Head(list), br)
         IN  RemoveDefaults(r.defs, Tail(list), r.br)

\* container/list MoveBefore / MoveAfter on a list without duplicates
ListMoveBefore(s, src, trg) ==
    LET w == SelectSeq(s, LAMBDA x : x # src)
        j == IndexOf(w, trg)
    IN  SubSeq(w, 1, j - 1) \o << src >> \o SubSeq(w, j, Len(w))

ListMoveAfter(s, src, trg) ==
    LET w == SelectSeq(s, LAMBDA x : x # src)
        j == IndexOf(w, trg)
    IN  SubSeq(w, 1, j) \o << src >> \o SubSeq(w, j + 1, Len(w))

(***************************************************************************)
(* State.                                                                  *)
(***************************************************************************)
VARIABLES
    \* process-wide configuration (src/xlog.go:159-168)
    CfgGlobalDisable, CfgAutoStartListening,
    \* Logger fields (src/xlog.go:284-307), one value per logger
    initialised, recorders, recordersInit, defaults,
    severityMasks, severityOrder, falseInit,
    \* the Logger's embedded sync.RWMutex
    mutex,
    \* recorder fields (src/rec_direct.go:73-88), one value per recorder
    chCtl, chMsg, chErr, errTap, isListening, refCounter,
    \* per recorder, the Listen calls that have read isListening as false and
    \* not yet set it (starting), and the listener loops that run (running)
    listeners,
    \* whether a debug tap is set, and whether the listener ended in a panic
    chDbg, panicked,
    \* the recorder's sink: whether it is physically open, how often it was
    \* opened and closed, and what was written to it
    sink,
    \* caller tasks: position, call frame, and the reply channel made by
    \* Initialise (src/xlog.go:532); ret is what the call that returned last
    \* returned, and to whom, together with the same for the call before it
    pc, loc, ret, chReply,
    \* history: per recorder, Init signals answered with success and Close
    \* signals that decremented the counter; per recorder and logger, the
    \* successful Init replies the logger received (got) and the Close
    \* signals it sent (sent)
    hist,
    \* number of calls that may still be made
    nops

cfgVars  == << CfgGlobalDisable, CfgAutoStartListening >>
logVars  == << initialised, recorders, recordersInit, defaults,
               severityMasks, severityOrder, falseInit >>
recVars  == << chCtl, chMsg, chErr, errTap, isListening, listeners, refCounter, sink, hist,
               chDbg, panicked >>
taskVars == << pc, loc, ret, chReply >>
vars     == << cfgVars, logVars, mutex, recVars, taskVars, nops >>

NoLoc == [op |-> "none"]
NoRet == [t |-> "none", op |-> "none", err |-> Nil,
          prev |-> [t |-> "none", op |-> "none", err |-> Nil]]

\* NewLogger (src/xlog.go:326-333), NewIoDirectRecorder
\* (src/rec_direct.go:91-104) and the configuration defaults
InitState ==
    /\ CfgGlobalDisable = FALSE
    /\ CfgAutoStartListening = TRUE
    /\ initialised   = [l \in Loggers |-> FALSE]
    /\ recorders     = [l \in Loggers |-> EmptyMap]
    /\ recordersInit = [l \in Loggers |-> EmptyMap]
    /\ defaults      = [l \in Loggers |-> << >>]
    /\ severityMasks = [l \in Loggers |-> EmptyMap]
    /\ severityOrder = [l \in Loggers |-> EmptyMap]
    /\ mutex         = [l \in Loggers |-> [writer |-> FALSE, readers |-> 0]]
    /\ chCtl         = [r \in Recs |-> << >>]
    /\ chMsg         = [r \in Recs |-> << >>]
    /\ chErr         = [r \in Recs |-> FALSE]
    /\ chDbg         = [r \in Recs |-> FALSE]
    /\ panicked      = [r \in Recs |-> FALSE]
    /\ errTap        = [r \in Recs |-> << >>]
    /\ isListening   = [r \in Recs |-> FALSE]
    /\ listeners     = [r \in Recs |-> [starting |-> 0, running |-> 0]]
    /\ refCounter    = [r \in Recs |-> 0]
    /\ sink          = [r \in Recs |-> [open |-> FALSE, opened |-> 0, closed |-> 0,
                                        out |-> << >>]]
    /\ hist          = [r \in Recs |-> [initOk |-> 0, closeDec |-> 0,
                                        got  |-> [l \in Loggers |-> 0],
                                        sent |-> [l \in Loggers |-> 0]]]
    /\ pc            = [t \in Tasks |-> "idle"]
    /\ loc           = [t \in Tasks |-> NoLoc]
    /\ ret           = NoRet
    /\ chReply       = [t \in Tasks |-> "none"]

(***************************************************************************)
(* The RWMutex.  Lock is granted when nobody holds the mutex, RLock when   *)
(* no writer holds it.                                                     *)
(***************************************************************************)
CanLock(l)  == ~mutex[l].writer /\ mutex[l].readers = 0
CanRLock(l) == ~mutex[l].writer

\* an unlock that leaves the lock held
UnlockKeeps(l) == UNCHANGED mutex

Lock(l)    == mutex' = [mutex EXCEPT ![l].writer = TRUE]
Unlock(l)  == mutex' = [mutex EXCEPT ![l].writer = FALSE]
RLock(l)   == mutex' = [mutex EXCEPT ![l].readers = @ + 1]
RUnlock(l) == mutex' = [mutex EXCEPT ![l].readers = @ - 1]

(***************************************************************************)
(* Call and return of a task.                                              *)
(***************************************************************************)
Call(t) ==
    /\ pc[t] = "idle"
    /\ nops > 0
    /\ nops' = nops - 1

Returned(t, op, err) ==
    [t |-> t, op |-> op, err |-> err,
     prev |-> [t |-> ret.t, op |-> ret.op, err |-> ret.err]]

Return(t, op, err) ==
    /\ pc'  = [pc EXCEPT ![t] = "idle"]
    /\ loc' = [loc EXCEPT ![t] = NoLoc]
    /\ ret' = Returned(t, op, err)

Goto(t, label, frame) ==
    /\ pc'  = [pc EXCEPT ![t] = label]
    /\ loc' = [loc EXCEPT ![t] = frame]
    /\ UNCHANGED ret

CtlRoom(r) == Len(chCtl[r]) < CtlCap
MsgRoom(r) == Len(chMsg[r]) < MsgCap

Signal(stype, data) == [stype |-> stype, data |-> data]

(***************************************************************************)
(* Logger.RegisterRecorder (src/xlog.go:345-418)                           *)
(***************************************************************************)
\* an asDefault that is false when it is left out
AsDefaultFalse(args) == IF Len(args) = 0 THEN FALSE ELSE args[1]

\* the variadic asDefault parameter: true when it is left out
\* (src/xlog.go:361-363, 406)
AsDefault(args) == IF Len(args) = 0 THEN TRUE ELSE args[1]

\* a search that never finds the id
IsRegisteredNever(l, id) == FALSE

\* for recID, _ := range L.recorders { if recID == id ... }
\* (src/xlog.go:373-377)
IsRegistered(l, id) == id \in DOMAIN recorders[l]

RegisterRecorder(t, l, id, intrf, asDefault) ==
    /\ Call(t)
    /\ UNCHANGED << cfgVars, recVars, chReply, falseInit, mutex >>
    /\ IF CfgGlobalDisable
       THEN /\ Return(t, "RegisterRecorder", Nil)
            /\ UNCHANGED << initialised, recorders, recordersInit, defaults,
                            severityMasks, severityOrder >>
       ELSE IF id = "" \/ HasNilChannel(intrf)
       THEN /\ Return(t, "RegisterRecorder", ErrVal("ErrWrongParameter"))
            /\ UNCHANGED << initialised, recorders, recordersInit, defaults,
                            severityMasks, severityOrder >>
       ELSE /\ CanLock(l)
            /\ IF IsRegistered(l, id)
               THEN /\ Return(t, "RegisterRecorder", ErrVal("ErrWrongRecorderID"))
                    /\ UNCHANGED << initialised, recorders, recordersInit, defaults,
                                    severityMasks, severityOrder >>
               ELSE /\ recorders' = [recorders EXCEPT ![l] = MapPut(@, id, intrf)]
                    /\ recordersInit' = [recordersInit EXCEPT ![l] = MapPut(@, id, FALSE)]
                    /\ severityMasks' = [severityMasks EXCEPT ![l] = MapPut(@, id, SeverityAll)]
                    /\ defaults' = [defaults EXCEPT
                                      ![l] = IF asDefault THEN Append(@, id) ELSE @]
                    /\ severityOrder' = [severityOrder EXCEPT
                                           ![l] = MapPut(@, id, defaultSeverityOrder)]
                    /\ initialised' = [initialised EXCEPT ![l] = FALSE]
                    /\ Return(t, "RegisterRecorder", Nil)

(***************************************************************************)
(* Logger.UnregisterRecorder (src/xlog.go:422-486).  The first part runs   *)
(* under RLock and may send Close; the second part takes Lock.             *)
(***************************************************************************)
\* a check that never finds the registry empty
RegistryEmptyNever(l) == FALSE

\* if len(L.recorders) == 0   (src/xlog.go:432-435)
RegistryEmpty(l) == DOMAIN recorders[l] = {}

UnregisterRecorder(t, l, id) ==
    /\ Call(t)
    /\ UNCHANGED << cfgVars, logVars, recVars, chReply >>
    /\ IF CfgGlobalDisable
       THEN Return(t, "UnregisterRecorder", Nil) /\ UNCHANGED mutex
       ELSE IF id = ""
       THEN Return(t, "UnregisterRecorder", ErrVal("ErrWrongParameter")) /\ UNCHANGED mutex
       ELSE /\ CanRLock(l)
            /\ IF RegistryEmpty(l)
               THEN Return(t, "UnregisterRecorder", ErrVal("ErrNoRecorders"))
                    /\ UNCHANGED mutex
               ELSE IF id \notin DOMAIN recorders[l]
               THEN Return(t, "UnregisterRecorder", ErrVal("ErrWrongRecorderID"))
                    /\ UNCHANGED mutex
               ELSE IF recordersInit[l][id]
               THEN \* rc.ChCtl <- SignalClose() is next, under RLock
                    /\ RLock(l)
                    /\ Goto(t, "unreg_send",
                            [op |-> "UnregisterRecorder", l |-> l, id |-> id,
                             rc |-> recorders[l][id]])
               ELSE \* RUnlock, then wait for Lock
                    /\ UNCHANGED mutex
                    /\ Goto(t, "unreg_lock",
                            [op |-> "UnregisterRecorder", l |-> l, id |-> id,
                             rc |-> recorders[l][id]])

\* src/xlog.go:453, 462
UnregisterSendClose(t) ==
    /\ pc[t] = "unreg_send"
    /\ CtlRoom(loc[t].rc)
    /\ chCtl' = [chCtl EXCEPT ![loc[t].rc] = Append(@, Signal("SIG_CLOSE", "nil"))]
    /\ hist' = [hist EXCEPT ![loc[t].rc].sent[loc[t].l] = @ + 1]
    /\ RUnlock(loc[t].l)
    /\ pc' = [pc EXCEPT ![t] = "unreg_lock"]
    /\ UNCHANGED << cfgVars, logVars, chMsg, chErr, chDbg, panicked, errTap, isListening, listeners, refCounter,
                    sink, loc, ret, chReply, nops >>

\* a deletion that forgets the order list of the recorder
DeleteRecorderKeepsOrder(l, id) ==
    [recorders     |-> MapDel(recorders[l], id),
     recordersInit |-> MapDel(recordersInit[l], id),
     severityMasks |-> MapDel(severityMasks[l], id),
     severityOrder |-> severityOrder[l]]

\* the four delete() calls (src/xlog.go:479-482)
DeleteRecorder(l, id) ==
    [recorders     |-> MapDel(recorders[l], id),
     recordersInit |-> MapDel(recordersInit[l], id),
     severityMasks |-> MapDel(severityMasks[l], id),
     severityOrder |-> MapDel(severityOrder[l], id)]

\* a check that never sees the last recorder leave
LastRecorderNever(l) == FALSE

\* if len(L.recorders) == 1   (src/xlog.go:475-477)
LastRecorder(l) == Cardinality(DOMAIN recorders[l]) = 1

\* src/xlog.go:463-485.  A task that holds elements of the deleted order
\* list (ChangeSeverityOrder between its two sections) keeps them, but they
\* no longer belong to whatever list is registered under the id.
UnregisterCommit(t) ==
    LET l == loc[t].l
        id == loc[t].id
    IN  /\ pc[t] = "unreg_lock"
        /\ CanLock(l)
        /\ defaults' = [defaults EXCEPT ![l] = RemoveFirst(@, id)]
        /\ initialised' = [initialised EXCEPT
                             ![l] = IF LastRecorder(l) THEN FALSE ELSE @]
        /\ recorders' = [recorders EXCEPT ![l] = DeleteRecorder(l, id).recorders]
        /\ recordersInit' = [recordersInit EXCEPT ![l] = DeleteRecorder(l, id).recordersInit]
        /\ severityMasks' = [severityMasks EXCEPT ![l] = DeleteRecorder(l, id).severityMasks]
        /\ severityOrder' = [severityOrder EXCEPT ![l] = DeleteRecorder(l, id).severityOrder]
        /\ pc'  = [pc EXCEPT ![t] = "idle"]
        /\ ret' = Returned(t, "UnregisterRecorder", Nil)
        /\ loc' = [u \in Tasks |->
                     IF u = t THEN NoLoc
                     ELSE IF pc[u] = "cso_lock" /\ loc[u].l = l /\ loc[u].id = id
                          /\ id \in DOMAIN recorders[l]
                     THEN [loc[u] EXCEPT !.alive = FALSE]
                     ELSE loc[u]]
        /\ UNCHANGED << cfgVars, falseInit, mutex, recVars, chReply, nops >>

(***************************************************************************)
(* Logger.Initialise (src/xlog.go:489-562), called without recorder        *)
(* objects.  The loop ranges over the map L.recorders: the order is any    *)
(* permutation, fixed when the loop starts.  Recorders already marked in   *)
(* recordersInit are skipped (src/xlog.go:512-514).                        *)
(***************************************************************************)
InitialiseTargets(l) == { id \in DOMAIN recorders[l] : ~recordersInit[l][id] }

\* an Initialise that never takes the early return
NeverInitialised(l) == FALSE

\* if L.initialised { return nil }   (src/xlog.go:497-499)
AlreadyInitialised(l) == initialised[l]

\* a logic at partial initialisation that is content with one success
SomeSucceeded(br) == br.successful # << >>

\* br.GetErrors() == nil   (src/xlog.go:555)
AllSucceeded(br) == DOMAIN BrGetErrors(br) = {}

\* Initialise(objects...): objects is the set of recorder objects in the
\* given lists, the ones list.FindByID can return (src/xlog.go:126-139)
InitialiseObjects(t, l, objects) ==
    /\ Call(t)
    /\ UNCHANGED << cfgVars, logVars, recVars, chReply >>
    /\ IF CfgGlobalDisable
       THEN Return(t, "Initialise", Nil) /\ UNCHANGED mutex
       ELSE /\ CanLock(l)
            /\ IF AlreadyInitialised(l)
               THEN Return(t, "Initialise", Nil) /\ UNCHANGED mutex
               ELSE IF DOMAIN recorders[l] = {}
               THEN Return(t, "Initialise", ErrVal("ErrNoRecorders")) /\ UNCHANGED mutex
               ELSE /\ Lock(l)
                    /\ \E order \in Perms(InitialiseTargets(l)) :
                         Goto(t, "init_loop",
                              [op |-> "Initialise", l |-> l, todo |-> order,
                               targets |-> InitialiseTargets(l),
                               objects |-> objects,
                               br |-> NewBatchResult])

\* Initialise() without recorder objects
Initialise(t, l) == InitialiseObjects(t, l, {})

\* a safe initialisation that never starts a listener
AutoStartsNever(rec, objects) == FALSE

\* the recorder object was given, is not listening, and the configuration
\* lets Initialise start its listener (src/xlog.go:515-523)
AutoStarts(rec, objects) ==
    rec \in objects /\ ~isListening[rec] /\ CfgAutoStartListening

\* the recorder object was given, is not listening, and the configuration
\* does not let Initialise start it (src/xlog.go:515-519, 524-527)
NotListeningFails(rec, objects) ==
    rec \in objects /\ ~isListening[rec] /\ ~CfgAutoStartListening

\* the test hook  l._falseInit.add(id)   (src/logger_test.go:267): the
\* Logger will treat an acknowledged Init of id as failed
FalseInitAdd(t, l, id) ==
    /\ Call(t)
    /\ falseInit' = [falseInit EXCEPT ![l] = @ \cup {id}]
    /\ UNCHANGED << cfgVars, initialised, recorders, recordersInit, defaults,
                    severityMasks, severityOrder, mutex, recVars, taskVars >>

\* the test's direct assignment  l.initialised = true
\* (src/logger_test.go:700), made on a logger nobody else is using
TestSetInitialised(t, l) ==
    /\ Call(t)
    /\ initialised' = [initialised EXCEPT ![l] = TRUE]
    /\ UNCHANGED << cfgVars, recorders, recordersInit, defaults, severityMasks,
                    severityOrder, falseInit, mutex, recVars, taskVars >>

\* the listening check on the given recorder objects, then
\* rec.ChCtl <- SignalInit(chErr)   (src/xlog.go:515-533).  The listener
\* that  go recorderObject.Listen(); runtime.Gosched()  starts is taken to
\* have set its flag when the signal is sent.
InitialiseSend(t) ==
    /\ pc[t] = "init_loop"
    /\ loc[t].todo # << >>
    /\ LET id  == Head(loc[t].todo)
           rec == recorders[loc[t].l][id]
       IN  IF NotListeningFails(rec, loc[t].objects)
           THEN /\ loc' = [loc EXCEPT ![t].todo = Tail(@),
                                      ![t].br = BrFail(@, id, "ErrNotListening")]
                /\ UNCHANGED << chCtl, pc, isListening, listeners >>
           ELSE /\ CtlRoom(rec)
                /\ chCtl' = [chCtl EXCEPT ![rec] = Append(@, Signal("SIG_INIT", t))]
                /\ isListening' = IF AutoStarts(rec, loc[t].objects)
                                  THEN [isListening EXCEPT ![rec] = TRUE]
                                  ELSE isListening
                /\ listeners' = IF AutoStarts(rec, loc[t].objects)
                                THEN [listeners EXCEPT ![rec].running = @ + 1]
                                ELSE listeners
                /\ pc' = [pc EXCEPT ![t] = "init_wait"]
                /\ UNCHANGED loc
    /\ UNCHANGED << cfgVars, logVars, mutex, chMsg, chErr, chDbg, panicked, errTap,
                    refCounter, sink, hist, ret, chReply, nops >>

\* err := <-chErr and the bookkeeping that follows (src/xlog.go:534-545)
InitialiseRecv(t) ==
    LET l  == loc[t].l
        id == Head(loc[t].todo)
    IN  /\ pc[t] = "init_wait"
        /\ chReply[t] # "none"
        /\ chReply' = [chReply EXCEPT ![t] = "none"]
        /\ pc' = [pc EXCEPT ![t] = "init_loop"]
        /\ IF chReply[t] # "nil"
           THEN /\ loc' = [loc EXCEPT ![t].todo = Tail(@),
                                      ![t].br = BrFail(@, id, chReply[t])]
                /\ UNCHANGED recordersInit
           ELSE IF id \in falseInit[l]
           THEN /\ loc' = [loc EXCEPT ![t].todo = Tail(@),
                                      ![t].br = BrFail(@, id, "ErrFalseInit")]
                /\ UNCHANGED recordersInit
           ELSE /\ recordersInit' = [recordersInit EXCEPT ![l][id] = TRUE]
                /\ loc' = [loc EXCEPT ![t].todo = Tail(@), ![t].br = BrOK(@, id)]
        /\ hist' = IF chReply[t] = "nil"
                   THEN [hist EXCEPT ![recorders[l][id]].got[l] = @ + 1]
                   ELSE hist
        /\ UNCHANGED << cfgVars, initialised, recorders, defaults, severityMasks,
                        severityOrder, falseInit, mutex, chCtl, chMsg, chErr, errTap,
                        isListening, listeners, refCounter, sink, chDbg, panicked, ret, nops >>

\* the logic at partial initialisation (src/xlog.go:554-561)
InitialiseReturn(t) ==
    LET l == loc[t].l
    IN  /\ pc[t] = "init_loop"
        /\ loc[t].todo = << >>
        /\ IF AllSucceeded(loc[t].br)
           THEN initialised' = [initialised EXCEPT ![l] = TRUE]
           ELSE UNCHANGED initialised
        /\ Unlock(l)
        /\ Return(t, "Initialise", BrReturn(loc[t].br))
        /\ UNCHANGED << cfgVars, recorders, recordersInit, defaults, severityMasks,
                        severityOrder, falseInit, recVars, chReply, nops >>

(***************************************************************************)
(* Logger.Close (src/xlog.go:567-582).  It does not consult                *)
(* CfgGlobalDisable and ranges over every registered recorder.             *)
(***************************************************************************)
CloseTargets(l) == DOMAIN recorders[l]

Close(t, l) ==
    /\ Call(t)
    /\ CanLock(l)
    /\ UNCHANGED << cfgVars, logVars, recVars, chReply >>
    /\ IF ~initialised[l] \/ DOMAIN recorders[l] = {}
       THEN Return(t, "Close", Nil) /\ UNCHANGED mutex
       ELSE /\ Lock(l)
            /\ \E order \in Perms(CloseTargets(l)) :
                 Goto(t, "close_loop", [op |-> "Close", l |-> l, todo |-> order])

\* rec.ChCtl <- SignalClose()   (src/xlog.go:577-579)
CloseSend(t) ==
    /\ pc[t] = "close_loop"
    /\ loc[t].todo # << >>
    /\ LET rec == recorders[loc[t].l][Head(loc[t].todo)]
       IN  /\ CtlRoom(rec)
           /\ chCtl' = [chCtl EXCEPT ![rec] = Append(@, Signal("SIG_CLOSE", "nil"))]
           /\ hist' = [hist EXCEPT ![rec].sent[loc[t].l] = @ + 1]
    /\ loc' = [loc EXCEPT ![t].todo = Tail(@)]
    /\ UNCHANGED << cfgVars, logVars, mutex, chMsg, chErr, chDbg, panicked, errTap, isListening, listeners,
                    refCounter, sink, pc, ret, chReply, nops >>

\* src/xlog.go:581
CloseReturn(t) ==
    /\ pc[t] = "close_loop"
    /\ loc[t].todo = << >>
    /\ initialised' = [initialised EXCEPT ![loc[t].l] = FALSE]
    /\ Unlock(loc[t].l)
    /\ Return(t, "Close", Nil)
    /\ UNCHANGED << cfgVars, recorders, recordersInit, defaults, severityMasks,
                    severityOrder, falseInit, recVars, chReply, nops >>

(***************************************************************************)
(* Logger.DefaultsSet / DefaultsAdd / DefaultsRemove (src/xlog.go:585-707) *)
(* A panic (index out of range in the validation loop) unwinds through the *)
(* deferred Unlock and leaves the Logger as it was.                        *)
(***************************************************************************)
DefaultsResult(l, kind, list) ==
    LET v == ValidateRecorders(list, DOMAIN recorders[l], kind = "DefaultsSet")
    IN  IF v.panic THEN [panic |-> TRUE, defs |-> defaults[l], br |-> v.br]
        ELSE IF kind = "DefaultsSet"
        THEN [panic |-> FALSE, defs |-> v.list, br |-> v.br]
        ELSE IF kind = "DefaultsAdd"
        THEN LET a == AddDefaults(defaults[l], v.list, v.br)
             IN  [panic |-> FALSE, defs |-> a.defs, br |-> a.br]
        ELSE LET a == RemoveDefaults(defaults[l], v.list, v.br)
             IN  [panic |-> FALSE, defs |-> a.defs, br |-> a.br]

DefaultsOp(t, l, kind, list) ==
    /\ Call(t)
    /\ UNCHANGED << cfgVars, initialised, recorders, recordersInit, severityMasks,
                    severityOrder, falseInit, mutex, recVars, chReply >>
    /\ IF CfgGlobalDisable
       THEN Return(t, kind, Nil) /\ UNCHANGED defaults
       ELSE /\ CanLock(l)
            /\ IF DOMAIN recorders[l] = {}
               THEN Return(t, kind, ErrVal("ErrNoRecorders")) /\ UNCHANGED defaults
               ELSE LET r == DefaultsResult(l, kind, list)
                    IN  IF r.panic
                        THEN Return(t, kind, ErrVal("panic")) /\ UNCHANGED defaults
                        ELSE /\ defaults' = [defaults EXCEPT ![l] = r.defs]
                             /\ Return(t, kind, BrReturn(r.br))

DefaultsSet(t, l, list) == DefaultsOp(t, l, "DefaultsSet", list)

DefaultsAdd(t, l, list) == DefaultsOp(t, l, "DefaultsAdd", list)

DefaultsRemove(t, l, list) == DefaultsOp(t, l, "DefaultsRemove", list)

(***************************************************************************)
(* Logger.SetSeverityMask (src/xlog.go:810-843)                            *)
(***************************************************************************)
SetSeverityMask(t, l, id, flags) ==
    /\ Call(t)
    /\ UNCHANGED << cfgVars, initialised, recorders, recordersInit, defaults,
                    severityOrder, falseInit, mutex, recVars, chReply >>
    /\ IF CfgGlobalDisable
       THEN Return(t, "SetSeverityMask", Nil) /\ UNCHANGED severityMasks
       ELSE IF id = ""
       THEN Return(t, "SetSeverityMask", ErrVal("ErrWrongParameter"))
            /\ UNCHANGED severityMasks
       ELSE /\ CanLock(l)
            /\ IF DOMAIN recorders[l] = {}
               THEN Return(t, "SetSeverityMask", ErrVal("ErrNoRecorders"))
                    /\ UNCHANGED severityMasks
               ELSE IF id \notin DOMAIN severityMasks[l]
               THEN /\ UNCHANGED severityMasks
                    /\ IF id \notin DOMAIN recorders[l]
                       THEN Return(t, "SetSeverityMask", ErrVal("ErrWrongRecorderID"))
                       ELSE Return(t, "SetSeverityMask", ErrVal("panic"))
               ELSE /\ severityMasks' = [severityMasks EXCEPT
                                           ![l][id] = BitAndNot(flags, SeverityShadowMask)]
                    /\ Return(t, "SetSeverityMask", Nil)

(***************************************************************************)
(* Logger.ChangeSeverityOrder (src/xlog.go:713-807).  The checks and the   *)
(* search for the two list elements run under RLock; the move runs later   *)
(* under Lock, on whatever list is then registered under the id.           *)
(* internalCritical panics (src/errors.go:190-194).                        *)
(***************************************************************************)
ChangeSeverityOrder(t, l, id, srcFlag, dir, trgFlag) ==
    LET src == BitAndNot(srcFlag, SeverityShadowMask)
        trg == BitAndNot(trgFlag, SeverityShadowMask)
    IN  /\ Call(t)
        /\ UNCHANGED << cfgVars, logVars, mutex, recVars, chReply >>
        /\ IF CfgGlobalDisable
           THEN Return(t, "ChangeSeverityOrder", Nil)
           ELSE IF id = ""
           THEN Return(t, "ChangeSeverityOrder", ErrVal("ErrWrongParameter"))
           ELSE /\ CanRLock(l)
                /\ IF DOMAIN recorders[l] = {}
                   THEN Return(t, "ChangeSeverityOrder", ErrVal("ErrNoRecorders"))
                   ELSE IF id \notin DOMAIN recorders[l]
                   THEN Return(t, "ChangeSeverityOrder", ErrVal("ErrWrongRecorderID"))
                   ELSE IF src = 0 \/ trg = 0 \/ src = trg
                   THEN Return(t, "ChangeSeverityOrder", ErrVal("ErrWrongFlagValue"))
                   ELSE IF id \notin DOMAIN severityOrder[l]
                   THEN Return(t, "ChangeSeverityOrder", ErrVal("panic"))
                   ELSE IF IndexOf(severityOrder[l][id], src) = 0
                           \/ IndexOf(severityOrder[l][id], trg) = 0
                   THEN Return(t, "ChangeSeverityOrder", ErrVal("panic"))
                   ELSE Goto(t, "cso_lock",
                             [op |-> "ChangeSeverityOrder", l |-> l, id |-> id,
                              src |-> src, trg |-> trg, dir |-> dir, alive |-> TRUE])

\* a move that takes the element out and does not put it back
MoveInOrderDrops(orderlist, src, dir, trg) ==
    SelectSeq(orderlist, LAMBDA x : x # src)

\* src/xlog.go:796-806.  MoveBefore / MoveAfter do nothing when the elements
\* are not elements of the list they are called on.
MoveInOrder(orderlist, src, dir, trg) ==
    IF dir = "Before" THEN ListMoveBefore(orderlist, src, trg)
    ELSE ListMoveAfter(orderlist, src, trg)

ChangeSeverityOrderCommit(t) ==
    LET l  == loc[t].l
        id == loc[t].id
    IN  /\ pc[t] = "cso_lock"
        /\ CanLock(l)
        /\ IF loc[t].alive
           THEN severityOrder' = [severityOrder EXCEPT
                   ![l][id] = MoveInOrder(@, loc[t].src, loc[t].dir, loc[t].trg)]
           ELSE UNCHANGED severityOrder
        /\ Return(t, "ChangeSeverityOrder", Nil)
        /\ UNCHANGED << cfgVars, initialised, recorders, recordersInit, defaults,
                        severityMasks, falseInit, mutex, recVars, chReply, nops >>

(***************************************************************************)
(* Logger.Write and Logger.WriteMsg (src/xlog.go:850-969).  The whole call *)
(* runs under RLock.  A nil message is NilMsg; a nil or empty recipient    *)
(* list is << >>.                                                          *)
(***************************************************************************)
NilMsg == [flags |-> -1, content |-> << >>]

LogMsg(flags, content) == [flags |-> flags, content |-> content]

\* a choice of recipients that always takes the defaults
WriteTargetsDefaults(l, recs) ==
    [list |-> defaults[l], br |-> NewBatchResult, panic |-> FALSE]

\* src/xlog.go:894-909
WriteTargets(l, recs) ==
    IF Len(recs) > 0
    THEN ValidateRecorders(recs, DOMAIN recorders[l], FALSE)
    ELSE [list |-> defaults[l], br |-> NewBatchResult, panic |-> FALSE]

\* a check that never finds the recipients missing
NoTargetsNever(l, recs) == FALSE

\* if len(L.defaults) == 0 && len(recorders) == 0   (src/xlog.go:885-889)
NoTargets(l, recs) == Len(defaults[l]) = 0 /\ Len(recs) = 0

WriteCall(t, l, op, recs, msg) ==
    /\ Call(t)
    /\ UNCHANGED << cfgVars, logVars, recVars, chReply >>
    /\ IF CfgGlobalDisable
       THEN Return(t, op, Nil) /\ UNCHANGED mutex
       ELSE IF msg = NilMsg
       THEN Return(t, op, ErrVal("ErrWrongParameter")) /\ UNCHANGED mutex
       ELSE /\ CanRLock(l)
            /\ IF ~initialised[l]
               THEN Return(t, op, ErrVal("ErrNotInitialised")) /\ UNCHANGED mutex
               ELSE IF DOMAIN recorders[l] = {}
               THEN Return(t, op, ErrVal("ErrNoRecorders")) /\ UNCHANGED mutex
               ELSE IF NoTargets(l, recs)
               THEN Return(t, op, ErrVal("ErrNotWhereToWrite")) /\ UNCHANGED mutex
               ELSE LET v == WriteTargets(l, recs)
                    IN  IF v.panic
                        THEN Return(t, op, ErrVal("panic")) /\ UNCHANGED mutex
                        ELSE /\ RLock(l)
                             /\ Goto(t, "wm_loop",
                                  [op |-> op, l |-> l, recs |-> recs,
                                   submitted |-> msg,
                                   targets |-> v.list,
                                   todo |-> v.list,
                                   msg |-> LogMsg(NormaliseSeverity(msg.flags),
                                                  AttachStackTrace(msg.flags, msg.content)),
                                   br |-> v.br,
                                   sent |-> << >>])

WriteMsg(t, l, recs, msg) == WriteCall(t, l, "WriteMsg", recs, msg)

\* Write builds the message and calls WriteMsg(nil, msg)
Write(t, l, flags, text) == WriteCall(t, l, "Write", << >>, LogMsg(flags, << text >>))

\* what WriteMsg returns at the end of the recipient loop (src/xlog.go:966-968)
WriteResult(br) == Nil

\* a channel that hands the newest message out first
MsgSendFront(q, m) == << m >> \o q

\* rec.ChMsg <- *msg (src/xlog.go:955): a Go channel is a FIFO queue
MsgSend(q, m) == Append(q, m)

\* one iteration of the recipient loop (src/xlog.go:941-964)
WriteMsgIter(t) ==
    LET l     == loc[t].l
        recID == Head(loc[t].todo)
        order == IF recID \in DOMAIN severityOrder[l]
                 THEN severityOrder[l][recID] ELSE << >>
        p     == severityProtector(order, loc[t].msg.flags)
        m     == LogMsg(p.flags, loc[t].msg.content)
    IN  /\ pc[t] = "wm_loop"
        /\ loc[t].todo # << >>
        /\ UNCHANGED << cfgVars, logVars, chCtl, chErr, chDbg, panicked, errTap, isListening, listeners,
                        refCounter, sink, hist, chReply, nops >>
        /\ IF p.err = "InternalError"
           THEN /\ loc' = [loc EXCEPT ![t].todo = Tail(@),
                                      ![t].br = BrFail(@, recID, "InternalError")]
                /\ UNCHANGED << pc, ret, chMsg, mutex >>
           ELSE IF p.err = "panic" \/ recID \notin DOMAIN severityMasks[l]
           THEN /\ RUnlock(l)
                /\ Return(t, loc[t].op, ErrVal("panic"))
                /\ UNCHANGED chMsg
           ELSE IF SeverityFilter(m.flags, severityMasks[l][recID])
           THEN /\ MsgRoom(recorders[l][recID])
                /\ chMsg' = [chMsg EXCEPT ![recorders[l][recID]] = MsgSend(@, m)]
                /\ loc' = [loc EXCEPT ![t].todo = Tail(@),
                                      ![t].msg = m,
                                      ![t].br = BrOK(@, recID),
                                      ![t].sent = Append(@, [id |-> recID, msg |-> m])]
                /\ UNCHANGED << pc, ret, mutex >>
           ELSE /\ loc' = [loc EXCEPT ![t].todo = Tail(@), ![t].msg = m]
                /\ UNCHANGED << pc, ret, chMsg, mutex >>

WriteMsgReturn(t) ==
    /\ pc[t] = "wm_loop"
    /\ loc[t].todo = << >>
    /\ RUnlock(loc[t].l)
    /\ Return(t, loc[t].op, WriteResult(loc[t].br))
    /\ UNCHANGED << cfgVars, logVars, recVars, chReply, nops >>

(***************************************************************************)
(* The recorder actor: Listen (src/rec_direct.go:140-202 and               *)
(* src/unnamed/part_001:113-173).                                          *)
(***************************************************************************)
\* go r.Listen(): returns at once when the recorder is already listening
Listen(r) ==
    /\ ~isListening[r]
    /\ isListening' = [isListening EXCEPT ![r] = TRUE]
    /\ listeners' = [listeners EXCEPT ![r].running = @ + 1]
    /\ UNCHANGED << cfgVars, logVars, mutex, chCtl, chMsg, chErr, chDbg, panicked, errTap,
                    refCounter, sink, hist, taskVars, nops >>

\* modelled number of Listen calls of one recorder that may be under way
MaxLoops == 2

\* if R.isListening.Get() { return }   (src/rec_direct.go:141-143): the
\* call reads the flag as false and goes on; the read and the Set that
\* follows are two critical sections of bool_s (src/xlog.go:147-157)
ListenCheck(r) ==
    /\ ~isListening[r]
    /\ listeners[r].starting + listeners[r].running < MaxLoops
    /\ listeners' = [listeners EXCEPT ![r].starting = @ + 1]
    /\ UNCHANGED << cfgVars, logVars, mutex, chCtl, chMsg, chErr, chDbg, panicked, errTap,
                    isListening, refCounter, sink, hist, taskVars, nops >>

\* R.isListening.Set(true) and the entry into the loop
\* (src/rec_direct.go:144-148)
ListenSet(r) ==
    /\ listeners[r].starting > 0
    /\ isListening' = [isListening EXCEPT ![r] = TRUE]
    /\ listeners' = [listeners EXCEPT ![r].starting = @ - 1, ![r].running = @ + 1]
    /\ UNCHANGED << cfgVars, logVars, mutex, chCtl, chMsg, chErr, chDbg, panicked, errTap,
                    refCounter, sink, hist, taskVars, nops >>

\* initialise(): ioDirectRecorder (src/rec_direct.go:210-213) only counts;
\* syslogRecorder (src/unnamed/part_001:181-192) opens the sink at zero and
\* returns the error, without counting, when that fails.  opens tells
\* whether syslog.New succeeds.
RecInitialise(r, opens) ==
    IF RecKind(r) = "syslog" /\ refCounter[r] = 0
    THEN IF opens
         THEN [err |-> "nil", refCounter |-> refCounter[r] + 1,
               sink |-> [sink[r] EXCEPT !.open = TRUE, !.opened = @ + 1]]
         ELSE [err |-> "ErrSinkOpen", refCounter |-> refCounter[r], sink |-> sink[r]]
    ELSE [err |-> "nil", refCounter |-> refCounter[r] + 1, sink |-> sink[r]]

\* a close() that does not look at the counter before it decrements
RecCloseUnguarded(r) ==
    [refCounter |-> refCounter[r] - 1,
     sink |-> IF refCounter[r] = 1
              THEN [sink[r] EXCEPT !.open = FALSE, !.closed = @ + 1]
              ELSE sink[r]]

\* close() (src/rec_direct.go:215-225, src/unnamed/part_001:194-202): at one
\* the sink is closed (the closer hook, or the syslog connection's Close)
RecClose(r) ==
    IF refCounter[r] = 0
    THEN [refCounter |-> 0, sink |-> sink[r]]
    ELSE [refCounter |-> refCounter[r] - 1,
          sink |-> IF refCounter[r] = 1
                   THEN [sink[r] EXCEPT !.open = FALSE, !.closed = @ + 1]
                   ELSE sink[r]]

\* the signal kinds the loop knows (src/xlog.go:240-247)
KnownSignals ==
    {"SIG_INIT", "SIG_CLOSE", "SIG_STOP", "SIG_SET_ERR", "SIG_SET_DBG",
     "SIG_DROP_ERR", "SIG_GROP_DBG"}

\* case sig := <-R.chCtl  (src/rec_direct.go:150-189).  The default branch
\* of the switch panics, and so does the type assertion on the data of an
\* Init signal that carries no reply channel; a panic ends the goroutine
\* (and, unrecovered, the program) with isListening left as it is.
RecvCtl(r) ==
    LET sig == Head(chCtl[r])
    IN  /\ listeners[r].running > 0
        /\ ~panicked[r]
        /\ chCtl[r] # << >>
        /\ chCtl' = [chCtl EXCEPT ![r] = Tail(@)]
        /\ UNCHANGED << cfgVars, logVars, mutex, chMsg, errTap, pc, loc, ret, nops >>
        /\ CASE sig.stype = "SIG_INIT" /\ sig.data \in Tasks ->
                  \E opens \in BOOLEAN :
                     LET res == RecInitialise(r, opens)
                     IN  /\ chReply[sig.data] = "none"
                         /\ chReply' = [chReply EXCEPT ![sig.data] = res.err]
                         /\ refCounter' = [refCounter EXCEPT ![r] = res.refCounter]
                         /\ sink' = [sink EXCEPT ![r] = res.sink]
                         /\ hist' = [hist EXCEPT ![r].initOk =
                                        IF chReply'[sig.data] = "nil" THEN @ + 1 ELSE @]
                         /\ UNCHANGED << chErr, chDbg, panicked, isListening, listeners >>
             [] sig.stype = "SIG_CLOSE" ->
                  LET res == RecClose(r)
                  IN  /\ refCounter' = [refCounter EXCEPT ![r] = res.refCounter]
                      /\ sink' = [sink EXCEPT ![r] = res.sink]
                      /\ hist' = [hist EXCEPT ![r].closeDec =
                                     IF refCounter[r] > 0 THEN @ + 1 ELSE @]
                      /\ UNCHANGED << chErr, chDbg, panicked, isListening, listeners, chReply >>
             [] sig.stype = "SIG_STOP" ->
                  /\ isListening' = [isListening EXCEPT ![r] = FALSE]
                  /\ listeners' = [listeners EXCEPT ![r].running = @ - 1]
                  /\ UNCHANGED << chErr, chDbg, panicked, refCounter, sink, hist, chReply >>
             [] sig.stype = "SIG_SET_ERR" ->
                  /\ chErr' = [chErr EXCEPT ![r] = TRUE]
                  /\ UNCHANGED << chDbg, panicked, isListening, listeners, refCounter, sink, hist,
                                  chReply >>
             [] sig.stype = "SIG_DROP_ERR" ->
                  /\ chErr' = [chErr EXCEPT ![r] = FALSE]
                  /\ UNCHANGED << chDbg, panicked, isListening, listeners, refCounter, sink, hist,
                                  chReply >>
             [] sig.stype = "SIG_SET_DBG" ->
                  /\ chDbg' = [chDbg EXCEPT ![r] = TRUE]
                  /\ UNCHANGED << chErr, panicked, isListening, listeners, refCounter, sink, hist,
                                  chReply >>
             [] sig.stype = "SIG_GROP_DBG" ->
                  /\ chDbg' = [chDbg EXCEPT ![r] = FALSE]
                  /\ UNCHANGED << chErr, panicked, isListening, listeners, refCounter, sink, hist,
                                  chReply >>
             [] OTHER ->
                  /\ panicked' = [panicked EXCEPT ![r] = TRUE]
                  /\ UNCHANGED << chErr, chDbg, isListening, listeners, refCounter, sink, hist,
                                  chReply >>

\* a write() that does not look at the counter
RecWriteUncounted(r, msg, delivered) ==
    IF delivered THEN [err |-> "nil", sink |-> [sink[r] EXCEPT !.out = Append(@, msg)]]
    ELSE [err |-> "writer fail", sink |-> sink[r]]

\* write() (src/rec_direct.go:229-249): delivered tells whether the
\* writer accepts the data
RecWrite(r, msg, delivered) ==
    IF refCounter[r] = 0 THEN [err |-> "ErrNotInitialised", sink |-> sink[r]]
    ELSE IF delivered THEN [err |-> "nil", sink |-> [sink[r] EXCEPT !.out = Append(@, msg)]]
    ELSE [err |-> "writer fail", sink |-> sink[r]]

\* a loop that keeps the write errors to itself
PublishesNever(r, err) == FALSE

\* if err != nil { if R.chErr != nil { R.chErr <- err } }
\* (src/rec_direct.go:194-199)
Publishes(r, err) == err # "nil" /\ chErr[r]

\* modelled capacity of an error tap
TapCap == 2

\* case msg := <-R.chMsg
RecvMsg(r) ==
    /\ listeners[r].running > 0
    /\ ~panicked[r]
    /\ chMsg[r] # << >>
    /\ chMsg' = [chMsg EXCEPT ![r] = Tail(@)]
    /\ \E delivered \in BOOLEAN :
         LET res == RecWrite(r, Head(chMsg[r]), delivered)
         IN  /\ sink' = [sink EXCEPT ![r] = res.sink]
             /\ IF Publishes(r, res.err)
                THEN /\ Len(errTap[r]) < TapCap
                     /\ errTap' = [errTap EXCEPT ![r] = Append(@, res.err)]
                ELSE UNCHANGED errTap
    /\ UNCHANGED << cfgVars, logVars, mutex, chCtl, chErr, chDbg, panicked, isListening, listeners, refCounter,
                    hist, taskVars, nops >>

\* the user switches the process-wide flag:  CfgGlobalDisable.Set(v)
\* (src/xlog.go:147-151, 162).  A Set that keeps the value changes nothing.
SetGlobalDisable(v) ==
    /\ nops > 0
    /\ nops' = nops - 1
    /\ CfgGlobalDisable # v
    /\ CfgGlobalDisable' = v
    /\ UNCHANGED << CfgAutoStartListening, logVars, mutex, recVars, taskVars >>

\* the user switches the process-wide flag:  CfgAutoStartListening.Set(v)
\* (src/xlog.go:147-151, 168; src/logger_test.go:400, 413)
SetAutoStartListening(v) ==
    /\ nops > 0
    /\ nops' = nops - 1
    /\ CfgAutoStartListening # v
    /\ CfgAutoStartListening' = v
    /\ UNCHANGED << CfgGlobalDisable, logVars, mutex, recVars, taskVars >>

\* the user stops a recorder:  r.Intrf().ChCtl <- SignalStop()
UserStop(r) ==
    /\ nops > 0
    /\ nops' = nops - 1
    /\ CtlRoom(r)
    /\ chCtl' = [chCtl EXCEPT ![r] = Append(@, Signal("SIG_STOP", "nil"))]
    /\ UNCHANGED << cfgVars, logVars, mutex, chMsg, chErr, chDbg, panicked, errTap, isListening, listeners,
                    refCounter, sink, hist, taskVars >>

\* the user sends a control signal without data:  r.Intrf().ChCtl <- sig
UserSignal(r, stype) ==
    /\ nops > 0
    /\ nops' = nops - 1
    /\ CtlRoom(r)
    /\ chCtl' = [chCtl EXCEPT ![r] = Append(@, Signal(stype, "nil"))]
    /\ UNCHANGED << cfgVars, logVars, mutex, chMsg, chErr, chDbg, panicked, errTap,
                    isListening, listeners, refCounter, sink, hist, taskVars >>

\* a task initialises a recorder directly, as the recorder tests do:
\*     chErr := make(chan error); r.Intrf().ChCtl <- SignalInit(chErr)
\* and then waits for the reply
UserInit(t, r) ==
    /\ Call(t)
    /\ CtlRoom(r)
    /\ chCtl' = [chCtl EXCEPT ![r] = Append(@, Signal("SIG_INIT", t))]
    /\ Goto(t, "uinit_wait", [op |-> "UserInit", r |-> r])
    /\ UNCHANGED << cfgVars, logVars, mutex, chMsg, chErr, chDbg, panicked, errTap,
                    isListening, listeners, refCounter, sink, hist, chReply >>

\* err := <-chErr
UserInitRecv(t) ==
    /\ pc[t] = "uinit_wait"
    /\ chReply[t] # "none"
    /\ chReply' = [chReply EXCEPT ![t] = "none"]
    /\ Return(t, "UserInit", ErrVal(chReply[t]))
    /\ UNCHANGED << cfgVars, logVars, mutex, recVars, nops >>

\* the user puts a message on the channel:  r.Intrf().ChMsg <- msg
UserSend(r, msg) ==
    /\ nops > 0
    /\ nops' = nops - 1
    /\ MsgRoom(r)
    /\ chMsg' = [chMsg EXCEPT ![r] = Append(@, msg)]
    /\ UNCHANGED << cfgVars, logVars, mutex, chCtl, chErr, chDbg, panicked, errTap,
                    isListening, listeners, refCounter, sink, hist, taskVars >>

\* the reader of the error tap takes one error:  <-chErr
TapRead(r) ==
    /\ errTap[r] # << >>
    /\ errTap' = [errTap EXCEPT ![r] = Tail(@)]
    /\ UNCHANGED << cfgVars, logVars, mutex, chCtl, chMsg, chErr, chDbg, panicked,
                    isListening, listeners, refCounter, sink, hist, taskVars, nops >>

(***************************************************************************)
(* The callers' inputs.  Recorder ids "a" and "b" name the recorders r1    *)
(* and r2; "ghost" is an id that is never registered.                      *)
(***************************************************************************)
\* longest recorder list given to a call
MaxList == 2

Ids == {"a", "b"}

RecOf(id) == IF id = "b" THEN "r2" ELSE "r1"

\* the non-empty lists of ids drawn from S, up to MaxList long
ListsOf(S) == UNION { [1..n -> S] : n \in 1..MaxList }

(***************************************************************************)
(* Spec: one logger, two recorders, two caller tasks that interleave every *)
(* Logger operation.                                                       *)
(***************************************************************************)
Init ==
    /\ InitState
    /\ falseInit = [l \in Loggers |-> {}]
    /\ nops = MaxOps

Next ==
    \/ \E t \in Tasks, id \in Ids, d \in BOOLEAN :
          RegisterRecorder(t, "L1", id, RecOf(id), d)
    \/ \E t \in Tasks, id \in Ids : UnregisterRecorder(t, "L1", id)
    \/ \E t \in Tasks : UnregisterSendClose(t)
    \/ \E t \in Tasks : UnregisterCommit(t)
    \/ \E t \in Tasks : Initialise(t, "L1")
    \/ \E t \in Tasks : InitialiseSend(t)
    \/ \E t \in Tasks : InitialiseRecv(t)
    \/ \E t \in Tasks : InitialiseReturn(t)
    \/ \E t \in Tasks : Close(t, "L1")
    \/ \E t \in Tasks : CloseSend(t)
    \/ \E t \in Tasks : CloseReturn(t)
    \/ \E t \in Tasks, list \in ListsOf(Ids) : DefaultsSet(t, "L1", list)
    \/ \E t \in Tasks, list \in ListsOf(Ids) : DefaultsAdd(t, "L1", list)
    \/ \E t \in Tasks, list \in ListsOf(Ids) : DefaultsRemove(t, "L1", list)
    \/ \E t \in Tasks, id \in Ids : SetSeverityMask(t, "L1", id, 0)
    \/ \E t \in Tasks, id \in Ids :
          ChangeSeverityOrder(t, "L1", id, Info, "Before", Error)
    \/ \E t \in Tasks : ChangeSeverityOrderCommit(t)
    \/ \E t \in Tasks : WriteMsg(t, "L1", << >>, LogMsg(Info, << "x" >>))
    \/ \E t \in Tasks : WriteMsgIter(t)
    \/ \E t \in Tasks : WriteMsgReturn(t)
    \/ \E r \in Recs : Listen(r)
    \/ \E r \in Recs : RecvCtl(r)
    \/ \E r \in Recs : RecvMsg(r)

Spec == Init /\ [][Next]_vars

(***************************************************************************)
(* Properties of the registry, checked under Spec.                         *)
(***************************************************************************)
\* C9: in every reachable state the four per-recorder maps of a logger
\* (recorders, recordersInit, severityMasks, severityOrder) have exactly the
\* same key set.
SameKeySets ==
    \A l \in Loggers :
       /\ DOMAIN recordersInit[l] = DOMAIN recorders[l]
       /\ DOMAIN severityMasks[l] = DOMAIN recorders[l]
       /\ DOMAIN severityOrder[l] = DOMAIN recorders[l]

\* C9's case: two recorders were registered and one of them has been
\* unregistered
SameKeySetsWitness ==
    /\ ret.op = "UnregisterRecorder"
    /\ ret.err = Nil
    /\ DOMAIN recorders["L1"] = {"b"}

\* C10: every id in defaults is a key of recorders, in every reachable
\* state.
DefaultsRegistered ==
    \A l \in Loggers : Range(defaults[l]) \subseteq DOMAIN recorders[l]

\* C11: in every reachable state, a logger whose initialised flag is true
\* has a non-empty registry and recordersInit true for every registered id;
\* and the flag becomes true only on the return of an Initialise call whose
\* BatchResult holds no failure.
InitialisedMeansAll ==
    /\ \A l \in Loggers : ~initialised[l]
    /\ [][\A l \in Loggers :
            /\ initialised'[l] =>
                  /\ DOMAIN recorders'[l] # {}
                  /\ \A id \in DOMAIN recorders'[l] : recordersInit'[l][id]
            /\ (~initialised[l] /\ initialised'[l]) =>
                  \E t \in Tasks :
                     /\ pc[t] = "init_loop" /\ pc'[t] = "idle"
                     /\ loc[t].l = l
                     /\ DOMAIN loc[t].br.errors = {}
                     /\ ret'.t = t /\ ret'.op = "Initialise" /\ ret'.err = Nil]_vars

\* C11's case: Initialise returned nil on a logger with two recorders, both
\* now marked, and the logger is initialised
InitialisedMeansAllWitness ==
    /\ ret.op = "Initialise" /\ ret.err = Nil
    /\ initialised["L1"]
    /\ DOMAIN recorders["L1"] = {"a", "b"}
    /\ \A id \in {"a", "b"} : recordersInit["L1"][id]

(***************************************************************************)
(* SpecWrite: one caller task sets a logger up and writes to it, with      *)
(* several flag words, masks, an order change and explicit recipient lists.*)
(***************************************************************************)
WriteFlags ==
    {0, Info, Error + Info, Info + StackTrace, CustomB1 + Debug + StackTraceShort}

WriteMasks == {0, SeverityAll - Critical - Error}

InitWrite ==
    /\ InitState
    /\ falseInit = [l \in Loggers |-> {}]
    /\ nops = WriteOps

NextWrite ==
    \/ \E id \in Ids, d \in BOOLEAN : RegisterRecorder("t1", "L1", id, RecOf(id), d)
    \/ Initialise("t1", "L1")
    \/ InitialiseSend("t1")
    \/ InitialiseRecv("t1")
    \/ InitialiseReturn("t1")
    \/ \E id \in Ids, m \in WriteMasks : SetSeverityMask("t1", "L1", id, m)
    \/ \E id \in Ids : ChangeSeverityOrder("t1", "L1", id, Info, "Before", Error)
    \/ ChangeSeverityOrderCommit("t1")
    \/ \E f \in WriteFlags : Write("t1", "L1", f, "hello")
    \/ \E list \in ListsOf(Ids \cup {"ghost"}) :
          WriteMsg("t1", "L1", list, LogMsg(Error + Info, << "x" >>))
    \/ WriteMsgIter("t1")
    \/ WriteMsgReturn("t1")
    \/ \E r \in Recs : Listen(r)
    \/ \E r \in Recs : RecvCtl(r)
    \/ \E r \in Recs : RecvMsg(r)

SpecWrite == InitWrite /\ [][NextWrite]_vars

(***************************************************************************)
(* Properties of the write path, checked under SpecWrite.                  *)
(***************************************************************************)
\* flags AND NOT SEVERITY_SHADOW_MASK: the severity bits of a flag word
SeverityOf(flags) == BitAnd(flags, SeverityAll)

AttributesOf(flags) == BitAnd(flags, SeverityShadowMask)

OneBit(n) == \E k \in 0..15 : n = 2^k

\* the first entry of an order list whose bit is set in flags
FirstSet(order, flags) ==
    LET S == { i \in DOMAIN order : BitAnd(flags, order[i]) > 0 }
    IN  order[CHOOSE i \in S : \A j \in S : i <= j]

\* the submitted flags with one severity: the first of the order list, or
\* INFO when none was submitted
ExpectedFlags(order, flags) ==
    IF SeverityOf(flags) = 0 THEN AttributesOf(flags) + Info
    ELSE AttributesOf(flags) + FirstSet(order, flags)

\* the submitted content, followed by a trace block when a stack-trace
\* attribute was submitted
ExpectedContent(msg) ==
    IF BitAnd(msg.flags, StackTraceShort) > 0 THEN msg.content \o << "stack-short" >>
    ELSE IF BitAnd(msg.flags, StackTrace) > 0 THEN msg.content \o << "stack-full" >>
    ELSE msg.content

\* task t takes one turn of the recipient loop / returns from the loop
IterStep(t) == pc[t] = "wm_loop" /\ loc[t].todo # << >> /\ loc'[t] # loc[t]

ReturnStep(t) == pc[t] = "wm_loop" /\ loc[t].todo = << >> /\ pc'[t] = "idle"

\* a write to the default recipients of a logger whose only default
\* recorder has the default mask
DefaultWriteCase(t) ==
    /\ pc[t] = "wm_loop"
    /\ loc[t].recs = << >>
    /\ Len(defaults[loc[t].l]) = 1
    /\ severityMasks[loc[t].l][defaults[loc[t].l][1]] = SeverityAll

\* C1 as the specification states it: the write puts exactly one message on
\* R's channel, whose content is the submitted text and whose flags are the
\* normalised submitted flags, and returns nil.
WriteDeliversText ==
    [][\A t \in Tasks : DefaultWriteCase(t) =>
          LET l   == loc[t].l
              id  == defaults[l][1]
              sub == loc[t].submitted
              m   == LogMsg(ExpectedFlags(severityOrder[l][id], sub.flags), sub.content)
          IN  /\ (pc'[t] = "idle" /\ ret'.t = t /\ ret'.op = "Write") =>
                   ret'.err = Nil
              /\ IterStep(t) =>
                   /\ loc[t].sent = << >>
                   /\ chMsg' = [chMsg EXCEPT ![recorders[l][id]] = Append(@, m)]
              /\ ReturnStep(t) =>
                   /\ Len(loc[t].sent) = 1
                   /\ ret'.t = t /\ ret'.err = Nil]_vars

\* C1: after a successful Initialise, a write to the default recipients of
\* a logger whose only default recorder R has the default mask puts exactly
\* one message on R's channel and returns nil; the flags of the message are
\* the normalised submitted flags, and its content is the submitted text,
\* followed by a stack-trace block when a stack-trace attribute was
\* submitted.
WriteDeliversTextAndTrace ==
    [][\A t \in Tasks : DefaultWriteCase(t) =>
          LET l   == loc[t].l
              id  == defaults[l][1]
              sub == loc[t].submitted
              m   == LogMsg(ExpectedFlags(severityOrder[l][id], sub.flags),
                            ExpectedContent(sub))
          IN  /\ (pc'[t] = "idle" /\ ret'.t = t /\ ret'.op = "Write") =>
                   ret'.err = Nil
              /\ IterStep(t) =>
                   /\ loc[t].sent = << >>
                   /\ chMsg' = [chMsg EXCEPT ![recorders[l][id]] = Append(@, m)]
              /\ ReturnStep(t) =>
                   /\ Len(loc[t].sent) = 1
                   /\ ret'.t = t /\ ret'.err = Nil]_vars

\* C1's case: Write(INFO, "hello") has returned nil and R holds the one
\* message, "hello" with flags INFO
WriteDeliversWitness ==
    /\ ret.op = "Write" /\ ret.err = Nil
    /\ ret.prev.op = "Initialise" /\ ret.prev.err = Nil
    /\ defaults["L1"] = << "a" >>
    /\ chMsg["r1"] = << LogMsg(Info, << "hello" >>) >>

\* C2: every message on a recorder's message channel has exactly one bit
\* set among the severity bits.
OneSeverityBit ==
    \A r \in Recs : \A i \in DOMAIN chMsg[r] : OneBit(SeverityOf(chMsg[r][i].flags))

\* C2's case: a message submitted with two severity bits went to two
\* recipients and is on the channels of both
OneSeverityBitWitness ==
    \E t \in Tasks :
       /\ pc[t] = "wm_loop"
       /\ Len(loc[t].sent) = 2
       /\ ~OneBit(SeverityOf(loc[t].submitted.flags))
       /\ \A r \in Recs : chMsg[r] # << >>

\* C3: for a single recipient, a delivered message carries the first entry
\* of the recipient's order list whose bit is set in the submitted flags
\* (INFO when no severity bit was submitted), no other severity bit, and the
\* attribute bits as submitted.
SingleRecipientSeverity ==
    [][\A t \in Tasks : (IterStep(t) /\ Len(loc[t].targets) = 1) =>
          LET l  == loc[t].l
              id == loc[t].targets[1]
              f  == ExpectedFlags(severityOrder[l][id], loc[t].submitted.flags)
          IN  chMsg' # chMsg =>
                 /\ Len(chMsg'[recorders[l][id]]) = Len(chMsg[recorders[l][id]]) + 1
                 /\ chMsg'[recorders[l][id]][Len(chMsg'[recorders[l][id]])].flags = f
                 /\ loc'[t].sent = << [id |-> id, msg |-> LogMsg(f, loc[t].msg.content)] >>]_vars

\* C3's case: after ChangeSeverityOrder(R, INFO, Before, ERR), a write of
\* ERR|INFO to the single recipient R has delivered exactly INFO
SingleRecipientWitness ==
    \E t \in Tasks :
       /\ pc[t] = "wm_loop"
       /\ loc[t].submitted.flags = Error + Info
       /\ Len(loc[t].targets) = 1
       /\ Len(loc[t].sent) = 1
       /\ loc[t].sent[1].msg.flags = Info
       /\ ret.op = "ChangeSeverityOrder"

\* C4: the recipient loop sends to a recipient exactly when the severity
\* bit chosen for it is set in its mask, a recipient that is filtered out is
\* skipped without an error, and nothing is sent to a recipient whose mask
\* is 0.
MaskFilters ==
    [][\A t \in Tasks : IterStep(t) =>
          LET l      == loc[t].l
              id     == Head(loc[t].todo)
              chosen == SeverityOf(ExpectedFlags(severityOrder[l][id], loc[t].msg.flags))
              passes == BitAnd(chosen, severityMasks[l][id]) > 0
              r      == recorders[l][id]
          IN  /\ passes => /\ Len(chMsg'[r]) = Len(chMsg[r]) + 1
                            /\ SeverityOf(chMsg'[r][Len(chMsg'[r])].flags) = chosen
              /\ ~passes => /\ chMsg' = chMsg
                             /\ loc'[t].br = loc[t].br
                             /\ pc'[t] = "wm_loop"
              /\ severityMasks[l][id] = 0 => chMsg' = chMsg]_vars

\* C4's case: SetSeverityMask(R, 0) returned nil, the write that followed
\* returned nil and R received nothing
MaskFiltersWitness ==
    /\ ret.op = "Write" /\ ret.err = Nil
    /\ ret.prev.op = "SetSeverityMask" /\ ret.prev.err = Nil
    /\ DOMAIN recorders["L1"] = {"a"}
    /\ defaults["L1"] = << "a" >>
    /\ severityMasks["L1"]["a"] = 0
    /\ chMsg["r1"] = << >>
    /\ sink["r1"].out = << >>

\* C5: WriteMsg with an explicit list that mixes registered and
\* unregistered ids delivers to every registered id of the list and returns
\* a BatchResult whose failures are exactly the unregistered ids, each with
\* WrongRecorderId.
MixedListReported ==
    [][\A t \in Tasks :
          (ReturnStep(t) /\ loc[t].op = "WriteMsg" /\ loc[t].recs # << >>) =>
                LET regs   == DOMAIN recorders[loc[t].l]
                    ghosts == Range(loc[t].recs) \ regs
                IN  /\ \A id \in Range(loc[t].recs) \cap regs :
                          severityMasks[loc[t].l][id] = SeverityAll =>
                             \E j \in DOMAIN loc[t].sent : loc[t].sent[j].id = id
                    /\ ghosts = {} => ret'.err = Nil
                    /\ ghosts # {} =>
                          /\ ret'.err.kind = "BatchResult"
                          /\ DOMAIN ret'.err.errors = ghosts
                          /\ \A g \in ghosts :
                                ret'.err.errors[g] = "ErrWrongRecorderID"]_vars

\* the ids a write has sent to, in the order of sending
SentIds(t) == [j \in DOMAIN loc[t].sent |-> loc[t].sent[j].id]

\* C20: WriteMsg with a non-empty recipient list sends only to the listed
\* registered ids, subject to their masks, and to no default recorder that
\* is not listed; with a nil or empty list, and for every Write, the
\* recipients are exactly the ids in defaults: the loop visits them in the
\* order of defaults, each turn sends to nobody but the id it visits, and
\* every default whose mask lets all severities through is sent to.
RecipientsChosen ==
    [][\A t \in Tasks :
          /\ (pc[t] = "idle" /\ pc'[t] = "wm_loop") =>
                LET l    == loc'[t].l
                    recs == loc'[t].recs
                IN  /\ loc'[t].op = "Write" => recs = << >>
                    /\ recs = << >> => loc'[t].targets = defaults[l]
                    /\ recs # << >> =>
                          Range(loc'[t].targets) = Range(recs) \cap DOMAIN recorders[l]
                    /\ loc'[t].todo = loc'[t].targets
                    /\ chMsg' = chMsg
          /\ (IterStep(t) /\ pc'[t] = "wm_loop") =>
                LET l  == loc[t].l
                    id == Head(loc[t].todo)
                IN  /\ loc'[t].todo = Tail(loc[t].todo)
                    /\ \A q \in Recs \ {recorders[l][id]} : chMsg'[q] = chMsg[q]
                    /\ chMsg' # chMsg <=> loc'[t].sent = Append(loc[t].sent,
                                              [id |-> id, msg |-> loc'[t].msg])
                    /\ chMsg' = chMsg => loc'[t].sent = loc[t].sent
          /\ ReturnStep(t) =>
                LET l    == loc[t].l
                    recs == loc[t].recs
                    to   == IF recs = << >> THEN defaults[l] ELSE recs
                    open == SelectSeq(loc[t].targets,
                                      LAMBDA id : severityMasks[l][id] = SeverityAll)
                IN  /\ chMsg' = chMsg
                    /\ Range(SentIds(t)) \subseteq Range(to) \cap DOMAIN recorders[l]
                    /\ SelectSeq(SentIds(t),
                                 LAMBDA id : severityMasks[l][id] = SeverityAll) = open
                    /\ recs = << >> =>
                          SelectSeq(defaults[l],
                                    LAMBDA id : severityMasks[l][id] = SeverityAll) = open]_vars

\* C20's case: with "a" registered but not a default and "b" the only
\* default, WriteMsg(["a"], msg) returned and the message is on the channel
\* of "a" alone
RecipientsChosenWitness ==
    /\ ret.op = "WriteMsg" /\ ret.err = Nil
    /\ ret.prev.op = "Initialise" /\ ret.prev.err = Nil
    /\ defaults["L1"] = << "b" >>
    /\ DOMAIN recorders["L1"] = {"a", "b"}
    /\ severityMasks["L1"]["b"] = SeverityAll
    /\ Len(chMsg["r1"]) = 1
    /\ chMsg["r2"] = << >> /\ sink["r2"].out = << >>

\* C13: a Write or WriteMsg call on a logger whose registry is empty
\* returns NoRecorders, in every state with an empty registry that the
\* public operations reach.
EmptyRegistryNoRecorders ==
    [][\A t \in Tasks :
          (/\ pc[t] = "idle" /\ pc'[t] = "idle"
           /\ nops' < nops
           /\ ret'.t = t /\ ret'.op \in {"Write", "WriteMsg"}
           /\ DOMAIN recorders["L1"] = {}) =>
             ret'.err = ErrVal("ErrNoRecorders")]_vars

(***************************************************************************)
(* SpecInit: one caller task registers recorders, initialises the logger   *)
(* (the syslog recorder may fail to open, the test hook may make an        *)
(* acknowledged Init count as failed), writes and closes.                  *)
(***************************************************************************)
InitInit ==
    /\ InitState
    /\ falseInit = [l \in Loggers |-> {}]
    /\ nops = InitOps

NextInit ==
    \/ \E id \in Ids : RegisterRecorder("t1", "L1", id, RecOf(id), TRUE)
    \/ FalseInitAdd("t1", "L1", "a")
    \/ Initialise("t1", "L1")
    \/ InitialiseSend("t1")
    \/ InitialiseRecv("t1")
    \/ InitialiseReturn("t1")
    \/ Close("t1", "L1")
    \/ CloseSend("t1")
    \/ CloseReturn("t1")
    \/ Write("t1", "L1", Info, "x")
    \/ WriteMsgIter("t1")
    \/ WriteMsgReturn("t1")
    \/ \E r \in Recs : Listen(r)
    \/ \E r \in Recs : RecvCtl(r)
    \/ \E r \in Recs : RecvMsg(r)

SpecInit == InitInit /\ [][NextInit]_vars

(***************************************************************************)
(* Properties of Initialise, checked under SpecInit.                       *)
(***************************************************************************)
\* C7: Initialise marks a recorder in recordersInit exactly when it takes
\* the recorder's Init as acknowledged; when some of the recorders it asked
\* acknowledged and others failed, it returns a BatchResult with exactly the
\* acknowledged ids as successes and exactly the failed ids with their
\* errors and leaves initialised false; and a Write on a logger that is not
\* initialised returns NotInitialised and sends nothing.
PartialInitialise ==
    [][\A t \in Tasks :
          /\ (pc[t] = "init_wait" /\ pc'[t] = "init_loop") =>
                LET l  == loc[t].l
                    id == Head(loc[t].todo)
                IN  recordersInit' =
                       IF chReply[t] = "nil" /\ id \notin falseInit[l]
                       THEN [recordersInit EXCEPT ![l][id] = TRUE]
                       ELSE recordersInit
          /\ (pc[t] = "init_loop" /\ pc'[t] = "idle") =>
                LET l      == loc[t].l
                    acked  == { id \in loc[t].targets : recordersInit[l][id] }
                    failed == loc[t].targets \ acked
                IN  (acked # {} /\ failed # {}) =>
                       /\ ret'.t = t /\ ret'.op = "Initialise"
                       /\ ret'.err.kind = "BatchResult"
                       /\ Range(ret'.err.successful) = acked
                       /\ DOMAIN ret'.err.errors = failed
                       /\ \A id \in failed :
                             ret'.err.errors[id] \in {"ErrSinkOpen", "ErrFalseInit"}
                       /\ recordersInit' = recordersInit
                       /\ initialised'[l] = FALSE
          /\ (pc[t] = "idle" /\ pc'[t] = "wm_loop") => initialised[loc'[t].l]
          /\ (pc[t] = "idle" /\ ~initialised["L1"] /\ ret' # ret /\ ret'.t = t
                /\ ret'.op = "Write") =>
                /\ ret'.err = ErrVal("ErrNotInitialised")
                /\ chMsg' = chMsg]_vars

\* C7's case: of two recorders one acknowledged Init and one failed, and
\* the Write that followed returned NotInitialised
PartialInitialiseWitness ==
    /\ ret.op = "Write" /\ ret.err = ErrVal("ErrNotInitialised")
    /\ ret.prev.op = "Initialise" /\ ret.prev.err.kind = "BatchResult"
    /\ Len(ret.prev.err.successful) = 1
    /\ Cardinality(DOMAIN ret.prev.err.errors) = 1
    /\ ~initialised["L1"]
    /\ \E id \in Ids : recordersInit["L1"][id]
    /\ \E id \in Ids : ~recordersInit["L1"][id]

\* C8: a call of Initialise on a logger whose initialised flag is true
\* returns nil at once, sends no signal, and leaves recordersInit,
\* initialised and every recorder's refCounter unchanged.
InitialiseIdempotent ==
    [][\A t \in Tasks :
          (/\ pc[t] = "idle"
           /\ initialised["L1"]
           /\ \/ pc'[t] \in {"init_loop", "init_wait"}
              \/ (nops' < nops /\ ret'.t = t /\ ret'.op = "Initialise"
                    /\ pc'[t] = "idle")) =>
             /\ pc'[t] = "idle"
             /\ ret'.err = Nil
             /\ chCtl' = chCtl
             /\ recordersInit' = recordersInit
             /\ initialised' = initialised
             /\ refCounter' = refCounter
             /\ mutex' = mutex]_vars

\* C8's case: Initialise returned nil twice in a row on a logger with an
\* initialised recorder, and the recorder counts one Init
InitialiseIdempotentWitness ==
    /\ ret.op = "Initialise" /\ ret.err = Nil
    /\ ret.prev.op = "Initialise" /\ ret.prev.err = Nil
    /\ initialised["L1"]
    /\ recordersInit["L1"] = [id \in {"a"} |-> TRUE]
    /\ refCounter["r1"] = 1
    /\ hist["r1"].initOk = 1

(***************************************************************************)
(* SpecShare: two loggers, each driven by its own task, register the same  *)
(* recorders, initialise, close and unregister.                            *)
(***************************************************************************)
LoggerOf(t) == IF t = "t1" THEN "L1" ELSE "L2"

InitShare ==
    /\ InitState
    /\ falseInit = [l \in Loggers |-> {}]
    /\ nops = ShareOps

NextShare ==
    \/ \E t \in Tasks, id \in Ids : RegisterRecorder(t, LoggerOf(t), id, RecOf(id), TRUE)
    \/ \E t \in Tasks, id \in Ids : UnregisterRecorder(t, LoggerOf(t), id)
    \/ \E t \in Tasks : UnregisterSendClose(t)
    \/ \E t \in Tasks : UnregisterCommit(t)
    \/ \E t \in Tasks : Initialise(t, LoggerOf(t))
    \/ \E t \in Tasks : InitialiseSend(t)
    \/ \E t \in Tasks : InitialiseRecv(t)
    \/ \E t \in Tasks : InitialiseReturn(t)
    \/ \E t \in Tasks : Close(t, LoggerOf(t))
    \/ \E t \in Tasks : CloseSend(t)
    \/ \E t \in Tasks : CloseReturn(t)
    \/ \E r \in Recs : Listen(r)
    \/ \E r \in Recs : RecvCtl(r)

SpecShare == InitShare /\ [][NextShare]_vars

(***************************************************************************)
(* Properties of the recorder actor, checked under SpecShare.              *)
(***************************************************************************)
\* C6: a recorder's refCounter is never negative and equals the number of
\* Init signals answered with success minus the number of Close signals
\* processed while it was positive; the sink is opened only on 0 -> 1 and
\* closed only on 1 -> 0, once.
RefCounterBalanced ==
    [][\A r \in Recs :
          /\ refCounter'[r] >= 0
          /\ refCounter'[r] = hist'[r].initOk - hist'[r].closeDec
          /\ sink'[r].opened # sink[r].opened =>
                /\ refCounter[r] = 0 /\ refCounter'[r] = 1
                /\ sink'[r].opened = sink[r].opened + 1
          /\ sink'[r].closed # sink[r].closed =>
                /\ refCounter[r] = 1 /\ refCounter'[r] = 0
                /\ sink'[r].closed = sink[r].closed + 1
          /\ RecKind(r) = "syslog" => (sink'[r].open <=> refCounter'[r] > 0)]_vars

\* C6's case: two loggers shared the syslog recorder; both initialised it
\* and both closed, and the sink was opened once and closed once
RefCounterBalancedWitness ==
    /\ ret.op = "Close" /\ ret.prev.op = "Close" /\ ret.t # ret.prev.t
    /\ hist["r2"].initOk = 2
    /\ hist["r2"].closeDec = 2
    /\ refCounter["r2"] = 0
    /\ sink["r2"].opened = 1
    /\ sink["r2"].closed = 1

(***************************************************************************)
(* SpecReject: one caller task makes calls with valid and invalid          *)
(* arguments: empty and unknown ids, a nil interface, a repeated id, a nil *)
(* message, an empty recipient list.                                       *)
(***************************************************************************)
\* number of calls explored in one behaviour of SpecReject
RejectOps == 3

RejectIds == {"", "a", "b"}

RejectIntrfs == {NilIntrf, NilCtlIntrf, NilMsgIntrf, "r1", "r2"}

AsDefaultArgs == {<< >>, << TRUE >>, << FALSE >>}

UnregIds == {"", "a", "ghost"}

RejectLists == {<< >>, << "a" >>}

RejectMsgs == {NilMsg, LogMsg(Info, << "x" >>)}

InitReject ==
    /\ InitState
    /\ falseInit = [l \in Loggers |-> {}]
    /\ nops = RejectOps

NextReject ==
    \/ \E id \in RejectIds, intrf \in RejectIntrfs, args \in AsDefaultArgs :
          RegisterRecorder("t1", "L1", id, intrf, AsDefault(args))
    \/ \E id \in UnregIds : UnregisterRecorder("t1", "L1", id)
    \/ UnregisterSendClose("t1")
    \/ UnregisterCommit("t1")
    \/ Initialise("t1", "L1")
    \/ InitialiseSend("t1")
    \/ InitialiseRecv("t1")
    \/ InitialiseReturn("t1")
    \/ TestSetInitialised("t1", "L1")
    \/ \E recs \in RejectLists, msg \in RejectMsgs : WriteMsg("t1", "L1", recs, msg)
    \/ WriteMsgIter("t1")
    \/ WriteMsgReturn("t1")
    \/ \E r \in Recs : Listen(r)
    \/ \E r \in Recs : RecvCtl(r)
    \/ \E r \in Recs : RecvMsg(r)

SpecReject == InitReject /\ [][NextReject]_vars

(***************************************************************************)
(* Properties of rejected calls, checked under SpecReject.                 *)
(***************************************************************************)
\* the call of task t returns err at once: nothing is sent and the logger
\* is as it was
Rejected(t, err) ==
    /\ pc'[t] = "idle"
    /\ ret'.t = t /\ ret'.err = ErrVal(err)
    /\ chCtl' = chCtl /\ chMsg' = chMsg
    /\ logVars' = logVars /\ mutex' = mutex

OthersUnchanged(l, id) ==
    \A o \in DOMAIN recorders[l] \ {id} :
       /\ o \in DOMAIN recorders'[l]
       /\ recorders'[l][o] = recorders[l][o]
       /\ recordersInit'[l][o] = recordersInit[l][o]
       /\ severityMasks'[l][o] = severityMasks[l][o]
       /\ severityOrder'[l][o] = severityOrder[l][o]

\* C14: a successful RegisterRecorder(id, intrf, asDefault) stores intrf
\* under id, sets recordersInit[id] false, the mask of id to all severities
\* and its order list to the default order, appends id to defaults exactly
\* when asDefault is true or left out, sets initialised false, and leaves
\* the entries of every other id unchanged.
RegisterStores ==
    [][\A t \in Tasks, l \in Loggers, id \in RejectIds, intrf \in RejectIntrfs,
          args \in AsDefaultArgs :
          (/\ nops' < nops /\ ret'.op = "RegisterRecorder" /\ ret'.err = Nil
           /\ ~CfgGlobalDisable
           /\ RegisterRecorder(t, l, id, intrf, AsDefault(args))) =>
             /\ DOMAIN recorders'[l] = DOMAIN recorders[l] \cup {id}
             /\ recorders'[l][id] = intrf
             /\ recordersInit'[l][id] = FALSE
             /\ severityMasks'[l][id] = 12543
             /\ severityOrder'[l][id] = << 1, 2, 4, 8, 16, 32, 64, 128, 4096, 8192 >>
             /\ defaults'[l] = IF args \in {<< >>, << TRUE >>}
                               THEN Append(defaults[l], id) ELSE defaults[l]
             /\ initialised'[l] = FALSE
             /\ OthersUnchanged(l, id)]_vars

\* C14's case: a second recorder was registered on an initialised logger;
\* the logger is no longer initialised, the new recorder is not marked and
\* the first one still is
RegisterStoresWitness ==
    /\ ret.op = "RegisterRecorder" /\ ret.err = Nil
    /\ ret.prev.op = "Initialise" /\ ret.prev.err = Nil
    /\ ~initialised["L1"]
    /\ DOMAIN recorders["L1"] = {"a", "b"}
    /\ recordersInit["L1"]["a"] /\ ~recordersInit["L1"]["b"]
    /\ defaults["L1"] = << "b" >>

\* C15: RegisterRecorder returns WrongParameter for an empty id and for an
\* interface with a nil control or message channel, and WrongRecorderId for
\* an id that is registered already; in each case no map, defaults or
\* initialised changes: a rejected duplicate neither resets initialised nor
\* replaces the stored interface.
RegisterRejects ==
    [][\A t \in Tasks, l \in Loggers, id \in RejectIds, intrf \in RejectIntrfs,
          args \in AsDefaultArgs :
          (/\ nops' < nops /\ ret'.op = "RegisterRecorder" /\ ret'.t = t
           /\ ~CfgGlobalDisable
           /\ RegisterRecorder(t, l, id, intrf, AsDefault(args))) =>
             /\ id = "" => Rejected(t, "ErrWrongParameter")
             /\ intrf \in {"nil", "nil-ctl", "nil-msg"} => Rejected(t, "ErrWrongParameter")
             /\ (id # "" /\ intrf \in Recs /\ id \in DOMAIN recorders[l]) =>
                   Rejected(t, "ErrWrongRecorderID")]_vars

\* C15's case: on an initialised logger a second registration of "a" was
\* rejected; the logger is still initialised and "a" is the only recorder
RegisterRejectsWitness ==
    /\ ret.op = "RegisterRecorder" /\ ret.err = ErrVal("ErrWrongRecorderID")
    /\ ret.prev.op = "Initialise" /\ ret.prev.err = Nil
    /\ initialised["L1"]
    /\ DOMAIN recorders["L1"] = {"a"}
    /\ recordersInit["L1"]["a"]

\* C17: UnregisterRecorder returns WrongParameter for an empty id, also
\* when the registry is empty, NoRecorders when the registry is empty, and
\* WrongRecorderId for an id that is not registered; in each case it sends
\* no Close and leaves the logger as it was.
UnregisterRejects ==
    [][\A t \in Tasks, l \in Loggers, id \in UnregIds :
          (/\ nops' < nops /\ pc[t] = "idle" /\ ~CfgGlobalDisable
           /\ UnregisterRecorder(t, l, id)) =>
             /\ id = "" => Rejected(t, "ErrWrongParameter")
             /\ (id # "" /\ DOMAIN recorders[l] = {}) => Rejected(t, "ErrNoRecorders")
             /\ (id # "" /\ DOMAIN recorders[l] # {} /\ id \notin DOMAIN recorders[l]) =>
                   Rejected(t, "ErrWrongRecorderID")]_vars

\* C17's case: on an initialised logger UnregisterRecorder of an unknown id
\* returned WrongRecorderId; the recorder of the logger got its Init and no
\* Close
UnregisterRejectsWitness ==
    /\ ret.op = "UnregisterRecorder" /\ ret.err = ErrVal("ErrWrongRecorderID")
    /\ ret.prev.op = "Initialise" /\ ret.prev.err = Nil
    /\ initialised["L1"]
    /\ \E id \in DOMAIN recorders["L1"] :
          /\ recordersInit["L1"][id]
          /\ chCtl[recorders["L1"][id]] = << >>
          /\ refCounter[recorders["L1"][id]] = 1

(***************************************************************************)
(* Properties of UnregisterRecorder and Close.                             *)
(***************************************************************************)
\* C16 (checked under Spec): a successful UnregisterRecorder(id) sends one
\* Close to the recorder if recordersInit[id] was true and none otherwise,
\* removes id from the four maps and from defaults, sets initialised false
\* if id was the last registered recorder, and otherwise leaves initialised
\* and the entries of the remaining recorders unchanged.
UnregisterRemoves ==
    [][\A t \in Tasks :
          /\ (pc[t] = "idle" /\ pc'[t] = "unreg_send") =>
                /\ recordersInit[loc'[t].l][loc'[t].id]
                /\ chCtl' = chCtl
          /\ (pc[t] = "idle" /\ pc'[t] = "unreg_lock") =>
                /\ ~recordersInit[loc'[t].l][loc'[t].id]
                /\ chCtl' = chCtl
          /\ (pc[t] = "unreg_send" /\ pc'[t] = "unreg_lock") =>
                chCtl' = [chCtl EXCEPT ![loc[t].rc] = Append(@, Signal("SIG_CLOSE", "nil"))]
          /\ (pc[t] = "unreg_lock" /\ pc'[t] = "idle") =>
                LET l  == loc[t].l
                    id == loc[t].id
                IN  /\ ret'.t = t /\ ret'.err = Nil
                    /\ chCtl' = chCtl
                    /\ id \notin DOMAIN recorders'[l]
                    /\ id \notin DOMAIN recordersInit'[l]
                    /\ id \notin DOMAIN severityMasks'[l]
                    /\ id \notin DOMAIN severityOrder'[l]
                    /\ id \notin Range(defaults'[l])
                    /\ initialised'[l] = IF DOMAIN recorders[l] \subseteq {id}
                                         THEN FALSE ELSE initialised[l]
                    /\ OthersUnchanged(l, id)]_vars

\* C18 (checked under SpecInit): Logger.Close sends one Close to each
\* registered recorder whose recordersInit is true and none to any other,
\* sets initialised false and unregisters nothing, in every state of the
\* logger, a partially initialised one included.
CloseSignalsInitialised ==
    [][\A t \in Tasks :
          LET marked(l) == { id \in DOMAIN recorders[l] : recordersInit[l][id] }
          IN  /\ (pc[t] = "idle" /\ pc'[t] = "idle" /\ nops' < nops
                    /\ ret'.t = t /\ ret'.op = "Close") =>
                    /\ \A l \in Loggers : marked(l) = {}
                    /\ \A l \in Loggers : ~initialised'[l]
                    /\ chCtl' = chCtl
              /\ (pc[t] = "idle" /\ pc'[t] = "close_loop") =>
                    /\ Range(loc'[t].todo) = marked(loc'[t].l)
                    /\ Len(loc'[t].todo) = Cardinality(marked(loc'[t].l))
              /\ (pc[t] = "close_loop" /\ pc'[t] = "close_loop") =>
                    /\ chCtl' = [chCtl EXCEPT ![recorders[loc[t].l][Head(loc[t].todo)]] =
                                    Append(@, Signal("SIG_CLOSE", "nil"))]
                    /\ loc'[t].todo = Tail(loc[t].todo)
              /\ (pc[t] = "close_loop" /\ pc'[t] = "idle") =>
                    /\ loc[t].todo = << >>
                    /\ ~initialised'[loc[t].l]
                    /\ chCtl' = chCtl
              /\ (pc[t] = "close_loop" \/ pc'[t] = "close_loop"
                    \/ (nops' < nops /\ ret'.op = "Close")) =>
                    UNCHANGED << recorders, recordersInit, defaults, severityMasks,
                                 severityOrder >>]_vars

(***************************************************************************)
(* SpecDisable: one caller task uses every Logger operation while the user *)
(* switches CfgGlobalDisable on and off.                                   *)
(***************************************************************************)
\* number of calls explored in one behaviour of SpecDisable
DisableOps == 4

InitDisable ==
    /\ InitState
    /\ falseInit = [l \in Loggers |-> {}]
    /\ nops = DisableOps

NextDisable ==
    \/ \E v \in BOOLEAN : SetGlobalDisable(v)
    \/ \E id \in Ids : RegisterRecorder("t1", "L1", id, RecOf(id), TRUE)
    \/ \E id \in Ids : UnregisterRecorder("t1", "L1", id)
    \/ UnregisterSendClose("t1")
    \/ UnregisterCommit("t1")
    \/ Initialise("t1", "L1")
    \/ InitialiseSend("t1")
    \/ InitialiseRecv("t1")
    \/ InitialiseReturn("t1")
    \/ Close("t1", "L1")
    \/ CloseSend("t1")
    \/ CloseReturn("t1")
    \/ DefaultsSet("t1", "L1", << "a" >>)
    \/ DefaultsAdd("t1", "L1", << "b" >>)
    \/ DefaultsRemove("t1", "L1", << "a" >>)
    \/ SetSeverityMask("t1", "L1", "a", 0)
    \/ ChangeSeverityOrder("t1", "L1", "a", Info, "Before", Error)
    \/ ChangeSeverityOrderCommit("t1")
    \/ Write("t1", "L1", Info, "x")
    \/ WriteMsg("t1", "L1", << "a" >>, LogMsg(Error, << "x" >>))
    \/ WriteMsgIter("t1")
    \/ WriteMsgReturn("t1")
    \/ \E r \in Recs : Listen(r)
    \/ \E r \in Recs : RecvCtl(r)
    \/ \E r \in Recs : RecvMsg(r)

SpecDisable == InitDisable /\ [][NextDisable]_vars

\* C19: while CfgGlobalDisable is true, every Logger operation returns
\* success at once, without sending a control signal or a message and
\* without changing the state of the logger.
DisabledIsNoOp ==
    [][(CfgGlobalDisable /\ CfgGlobalDisable' /\ nops' < nops) =>
          /\ \A t \in Tasks : pc'[t] = "idle"
          /\ ret'.err = Nil
          /\ chCtl' = chCtl /\ chMsg' = chMsg
          /\ logVars' = logVars /\ mutex' = mutex]_vars

(***************************************************************************)
(* SpecRec: the recorder actor on its own.  The user starts the listener,  *)
(* sends control signals (an unknown kind among them) and messages         *)
(* directly, and the sink may reject a write.                              *)
(***************************************************************************)
\* number of user operations explored in one behaviour of SpecRec
RecOps == 4

RecSignals ==
    {"SIG_CLOSE", "SIG_STOP", "SIG_SET_ERR", "SIG_DROP_ERR", "SIG_SET_DBG",
     "SIG_GROP_DBG", "SIG_BOGUS"}

RecMsgs == {LogMsg(Info, << "m1" >>), LogMsg(Error, << "m2" >>)}

InitRec ==
    /\ InitState
    /\ falseInit = [l \in Loggers |-> {}]
    /\ nops = RecOps

NextRec ==
    \/ \E r \in Recs : Listen(r)
    \/ \E r \in Recs : UserInit("t1", r)
    \/ UserInitRecv("t1")
    \/ \E r \in Recs, stype \in RecSignals : UserSignal(r, stype)
    \/ \E r \in Recs, msg \in RecMsgs : UserSend(r, msg)
    \/ \E r \in Recs : RecvCtl(r)
    \/ \E r \in Recs : RecvMsg(r)
    \/ \E r \in Recs : TapRead(r)

SpecRec == InitRec /\ [][NextRec]_vars

(***************************************************************************)
(* Properties of the recorder actor, checked under SpecRec.                *)
(***************************************************************************)
\* the listener of r takes a message off its channel
TakesMsg(r) == Len(chMsg'[r]) < Len(chMsg[r])

\* the listener of r takes a control signal off its channel
TakesCtl(r) == Len(chCtl'[r]) < Len(chCtl[r])

\* C21: a message that a recorder receives while its refCounter is 0 is
\* never written to the sink: it is discarded, and NotInitialised is
\* published on the error tap if one is set.
ZeroRefDiscards ==
    [][\A r \in Recs :
          (TakesMsg(r) /\ refCounter[r] = 0) =>
             /\ sink'[r] = sink[r]
             /\ chMsg'[r] = Tail(chMsg[r])
             /\ errTap'[r] = IF chErr[r] THEN Append(errTap[r], "ErrNotInitialised")
                             ELSE errTap[r]]_vars

\* C21's case: a recorder with an error tap and no reference received a
\* message; nothing was written and the tap holds NotInitialised
ZeroRefDiscardsWitness ==
    \E r \in Recs :
       /\ chErr[r] /\ refCounter[r] = 0 /\ hist[r].initOk = 0
       /\ chMsg[r] = << >>
       /\ errTap[r] = << "ErrNotInitialised" >>
       /\ sink[r].out = << >>

(***************************************************************************)
(* SpecFail: one caller task writes through a logger to a recorder whose   *)
(* sink may reject a write, with and without an error tap.                 *)
(***************************************************************************)
\* number of calls explored in one behaviour of SpecFail
FailOps == 5

InitFail ==
    /\ InitState
    /\ falseInit = [l \in Loggers |-> {}]
    /\ nops = FailOps

NextFail ==
    \/ RegisterRecorder("t1", "L1", "a", RecOf("a"), TRUE)
    \/ Initialise("t1", "L1")
    \/ InitialiseSend("t1")
    \/ InitialiseRecv("t1")
    \/ InitialiseReturn("t1")
    \/ \E stype \in {"SIG_SET_ERR", "SIG_DROP_ERR", "SIG_CLOSE"} :
          UserSignal(RecOf("a"), stype)
    \/ \E f \in {Info, Error} : Write("t1", "L1", f, "x")
    \/ WriteMsgIter("t1")
    \/ WriteMsgReturn("t1")
    \/ \E r \in Recs : Listen(r)
    \/ \E r \in Recs : RecvCtl(r)
    \/ \E r \in Recs : RecvMsg(r)
    \/ \E r \in Recs : TapRead(r)

SpecFail == InitFail /\ [][NextFail]_vars

\* C22: a failed sink write does not stop the recorder loop and is not
\* returned to the producer: the write call that queued the message returns
\* nil, the error goes to the error tap when one is set, and the messages
\* and signals that follow stay queued for the running loop.
WriteFailureObserved ==
    [][/\ \A r \in Recs :
             (TakesMsg(r) /\ refCounter[r] > 0 /\ sink'[r].out = sink[r].out) =>
                /\ isListening'[r] /\ ~panicked'[r]
                /\ errTap'[r] = IF chErr[r] THEN Append(errTap[r], "writer fail")
                                ELSE errTap[r]
                /\ chMsg'[r] = Tail(chMsg[r])
                /\ chCtl' = chCtl
                /\ refCounter' = refCounter
                /\ ret' = ret /\ pc' = pc /\ loc' = loc
       /\ \A t \in Tasks : ReturnStep(t) => (ret'.t = t /\ ret'.err = Nil)]_vars

\* C22's case: two writes returned nil; the sink rejected one
\* message, its error is on the tap, and the loop wrote the other one
WriteFailureWitness ==
    /\ ret.op = "Write" /\ ret.err = Nil
    /\ ret.prev.op = "Write" /\ ret.prev.err = Nil
    /\ chErr["r1"]
    /\ errTap["r1"] = << "writer fail" >>
    /\ chMsg["r1"] = << >>
    /\ sink["r1"].out = << LogMsg(Error, << "x" >>) >>
    /\ isListening["r1"]

\* C23: a control signal of a kind the recorder does not know is ignored:
\* the loop keeps running and the reference counter and the taps keep
\* their values.
UnknownSignalIgnored ==
    [][\A r \in Recs :
          (TakesCtl(r) /\ Head(chCtl[r]).stype \notin KnownSignals) =>
             /\ ~panicked'[r]
             /\ isListening'[r]
             /\ refCounter'[r] = refCounter[r]
             /\ chErr'[r] = chErr[r]
             /\ chDbg'[r] = chDbg[r]]_vars

\* the listener goroutine of r is inside its for/select loop
LoopRunning(r) == isListening[r] /\ ~panicked[r]

\* C24: the listener loop exits only by processing Stop: a step that ends
\* the loop takes a Stop signal and leaves listening false, and a loop that
\* is not running takes nothing from either channel.
ExitsOnlyByStop ==
    [][\A r \in Recs :
          /\ (LoopRunning(r) /\ ~LoopRunning(r)') =>
                /\ TakesCtl(r)
                /\ Head(chCtl[r]).stype = "SIG_STOP"
                /\ ~isListening'[r]
          /\ ~LoopRunning(r) => (~TakesCtl(r) /\ ~TakesMsg(r))]_vars

\* the part of C24 about the listed kinds: Init, Close, the tap signals,
\* a message and a failed write leave the loop running
ListedKindsKeepLoop ==
    [][\A r \in Recs :
          (/\ LoopRunning(r)
           /\ \/ TakesMsg(r)
              \/ /\ TakesCtl(r)
                 /\ Head(chCtl[r]).stype \in KnownSignals \ {"SIG_STOP"}) =>
             LoopRunning(r)']_vars

AutoOps == 5

InitAuto ==
    /\ InitState
    /\ falseInit = [l \in Loggers |-> {}]
    /\ nops = AutoOps

NextAuto ==
    \/ \E id \in Ids : RegisterRecorder("t1", "L1", id, RecOf(id), TRUE)
    \/ \E v \in BOOLEAN : SetAutoStartListening(v)
    \/ \E objects \in SUBSET Recs : InitialiseObjects("t1", "L1", objects)
    \/ InitialiseSend("t1")
    \/ InitialiseRecv("t1")
    \/ InitialiseReturn("t1")
    \/ \E r \in Recs : Listen(r)
    \/ \E r \in Recs : RecvCtl(r)

SpecAuto == InitAuto /\ [][NextAuto]_vars

\* the step of Initialise that deals with the next recorder of its loop
InitialiseStep(t) ==
    /\ pc[t] = "init_loop"
    /\ loc[t].todo # << >>
    /\ \/ pc'[t] = "init_wait"
       \/ pc'[t] = "init_loop" /\ loc'[t].todo # loc[t].todo

DefaultsNoDuplicates ==
    \A l \in Loggers :
       \A i, j \in 1..Len(defaults[l]) :
          defaults[l][i] = defaults[l][j] => i = j

\* the ids of list that are registered with l, and those that are not
GivenRegistered(l, list) == Range(list) \cap DOMAIN recorders[l]
GivenUnknown(l, list) == Range(list) \ DOMAIN recorders[l]

\* C28: DefaultsSet, DefaultsAdd and DefaultsRemove given a list with
\* unregistered ids, wherever they stand, return a BatchResult that maps
\* exactly those ids to WrongRecorderID and still apply the list's
\* registered ids (after DefaultsSet the defaults are exactly those); on an
\* empty registry they return NoRecorders and change nothing.
DefaultsTolerateUnknown ==
    [][\A t \in Tasks, list \in ListsOf(Ids) :
          \A kind \in {"DefaultsSet", "DefaultsAdd", "DefaultsRemove"} :
             (/\ nops' < nops /\ pc[t] = "idle" /\ ~CfgGlobalDisable
              /\ ret'.op = kind /\ ret'.t = t
              /\ DefaultsOp(t, "L1", kind, list)) =>
                IF DOMAIN recorders["L1"] = {}
                THEN ret'.err = ErrVal("ErrNoRecorders") /\ defaults' = defaults
                ELSE /\ IF GivenUnknown("L1", list) = {}
                        THEN ret'.err = Nil
                        ELSE /\ ret'.err.kind = "BatchResult"
                             /\ ret'.err.errors =
                                   [id \in GivenUnknown("L1", list) |-> "ErrWrongRecorderID"]
                     /\ CASE kind = "DefaultsSet" ->
                                Range(defaults'["L1"]) = GivenRegistered("L1", list)
                          [] kind = "DefaultsAdd" ->
                                GivenRegistered("L1", list) \subseteq Range(defaults'["L1"])
                          [] OTHER ->
                                GivenRegistered("L1", list) \cap Range(defaults'["L1"]) = {}]_vars

(***************************************************************************)
(* SpecOrder: ChangeSeverityOrder with every kind of flag value, while a   *)
(* second task registers and unregisters the recorder.                     *)
(***************************************************************************)
\* number of calls explored in one behaviour of SpecOrder
OrderOps == 4

\* no severity, single severities, a severity with an attribute, an
\* attribute alone, two severities at once
OrderFlags ==
    {0, Info, Notice, Error, BitOr(Info, StackTrace), StackTrace, BitOr(Info, Error)}

OrderIds == {"", "a", "ghost"}

Directions == {"Before", "After"}

InitOrder ==
    /\ InitState
    /\ falseInit = [l \in Loggers |-> {}]
    /\ nops = OrderOps

NextOrder ==
    \/ \E t \in Tasks, id \in Ids : RegisterRecorder(t, "L1", id, RecOf(id), FALSE)
    \/ UnregisterRecorder("t2", "L1", "a")
    \/ UnregisterCommit("t2")
    \/ \E id \in OrderIds, src \in OrderFlags, dir \in Directions, trg \in OrderFlags :
          ChangeSeverityOrder("t1", "L1", id, src, dir, trg)
    \/ ChangeSeverityOrderCommit("t1")

SpecOrder == InitOrder /\ [][NextOrder]_vars

\* the step on which a ChangeSeverityOrder call of t returns nil
OrderCommitStep(t) == pc[t] = "cso_lock" /\ pc'[t] = "idle" /\ ret'.err = Nil

\* the list of the recorder after the call of t: src next to target on
\* the side asked for, the rest as before
OrderMoved(t) ==
    LET l   == loc[t].l
        id  == loc[t].id
        src == loc[t].src
        trg == loc[t].trg
        new == severityOrder'[l][id]
    IN  /\ IndexOf(new, src) > 0 /\ IndexOf(new, trg) > 0
        /\ IF loc[t].dir = "Before"
           THEN IndexOf(new, src) + 1 = IndexOf(new, trg)
           ELSE IndexOf(new, src) = IndexOf(new, trg) + 1
        /\ id \in DOMAIN severityOrder[l] =>
              /\ Len(new) = Len(severityOrder[l][id])
              /\ SelectSeq(new, LAMBDA x : x # src) =
                    SelectSeq(severityOrder[l][id], LAMBDA x : x # src)
              /\ (/\ severityOrder[l][id] = defaultSeverityOrder
                  /\ src = Info /\ trg = Notice /\ loc[t].dir = "Before") =>
                    new = << Emerg, Alert, Critical, Error, Warning, Info, Notice,
                             Debug, CustomB1, CustomB2 >>
        /\ \A other \in DOMAIN severityOrder[l] \ {id} :
              /\ other \in DOMAIN severityOrder'[l]
              /\ severityOrder'[l][other] = severityOrder[l][other]

\* C29: a ChangeSeverityOrder(id, src, Before|After, target) that returns
\* nil leaves src immediately before (after) target in the order list of
\* the registered recorder id, keeps the length of the list and the
\* relative order of the other severities, and leaves the lists of the
\* other recorders alone.
OrderMoves ==
    [][\A t \in Tasks :
          (OrderCommitStep(t) /\ loc[t].id \in DOMAIN severityOrder'[loc[t].l]) =>
             OrderMoved(t)]_vars

\* the same for a call during which no other task unregistered the recorder
OrderMovesUndisturbed ==
    [][\A t \in Tasks :
          (OrderCommitStep(t) /\ loc[t].alive) => OrderMoved(t)]_vars

\* a flag that, with the non-severity bits cleared, is one severity of the
\* default order list
SingleSeverity(flag) ==
    BitAndNot(flag, SeverityShadowMask) \in Range(defaultSeverityOrder)

\* C30: ChangeSeverityOrder returns WrongFlagValue and leaves the order
\* lists unchanged whenever src or target, with the non-severity bits
\* cleared, is zero or not a single recognised severity, or src = target;
\* the checks of the id (WrongParameter, NoRecorders, WrongRecorderID) come
\* first; and no flag value makes the call panic.
OrderRejectsFlags ==
    [][\A t \in Tasks, id \in OrderIds, src \in OrderFlags, trg \in OrderFlags :
          \A dir \in Directions :
             (/\ nops' < nops /\ pc[t] = "idle" /\ ~CfgGlobalDisable
              /\ ChangeSeverityOrder(t, "L1", id, src, dir, trg)) =>
                /\ ret'.err.kind # "panic"
                /\ (\/ ~SingleSeverity(src) \/ ~SingleSeverity(trg)
                    \/ BitAndNot(src, SeverityShadowMask) =
                          BitAndNot(trg, SeverityShadowMask)) =>
                      /\ pc'[t] = "idle"
                      /\ ret'.op = "ChangeSeverityOrder"
                      /\ ret'.err =
                            IF id = "" THEN ErrVal("ErrWrongParameter")
                            ELSE IF DOMAIN recorders["L1"] = {}
                            THEN ErrVal("ErrNoRecorders")
                            ELSE IF id \notin DOMAIN recorders["L1"]
                            THEN ErrVal("ErrWrongRecorderID")
                            ELSE ErrVal("ErrWrongFlagValue")
                      /\ severityOrder' = severityOrder]_vars

(***************************************************************************)
(* SpecBatch: a task builds a BatchResult and calls Fail and OK on it      *)
(* (src/unnamed/part_009:8-49).  The frame of the task holds the value and *)
(* remembers the last call made for each id and the ids whose status a    *)
(* call has reversed.                                                      *)
(***************************************************************************)
\* number of calls explored in one behaviour of SpecBatch
BatchOps == 5

BatchIds == {"a", "b", "c"}

BatchErrs == {"e1", "e2"}

\* r := BatchResult{}
BrNew(t) ==
    /\ Call(t)
    /\ Goto(t, "br", [op |-> "BatchResult", br |-> NewBatchResult, last |-> EmptyMap,
                     flipped |-> {}])
    /\ UNCHANGED << cfgVars, logVars, mutex, recVars, chReply >>

\* r.Fail(id, err)
BrFailCall(t, id, err) ==
    /\ pc[t] = "br"
    /\ nops > 0
    /\ nops' = nops - 1
    /\ loc' = [loc EXCEPT ![t].br = BrFail(@, id, err),
                          ![t].last = MapPut(@, id, err),
                          ![t].flipped =
                             IF id \in DOMAIN loc[t].last /\ loc[t].last[id] = "ok"
                             THEN @ \cup {id} ELSE @]
    /\ UNCHANGED << cfgVars, logVars, mutex, recVars, chReply, pc, ret >>

\* r.OK(id)
BrOKCall(t, id) ==
    /\ pc[t] = "br"
    /\ nops > 0
    /\ nops' = nops - 1
    /\ loc' = [loc EXCEPT ![t].br = BrOK(@, id),
                          ![t].last = MapPut(@, id, "ok"),
                          ![t].flipped =
                             IF id \in DOMAIN loc[t].last /\ loc[t].last[id] # "ok"
                             THEN @ \cup {id} ELSE @]
    /\ UNCHANGED << cfgVars, logVars, mutex, recVars, chReply, pc, ret >>

InitBatch ==
    /\ InitState
    /\ falseInit = [l \in Loggers |-> {}]
    /\ nops = BatchOps

NextBatch ==
    \/ BrNew("t1")
    \/ \E id \in BatchIds, err \in BatchErrs : BrFailCall("t1", id, err)
    \/ \E id \in BatchIds : BrOKCall("t1", id)

SpecBatch == InitBatch /\ [][NextBatch]_vars

\* C31: after any sequence of Fail and OK calls on a BatchResult no id is
\* both failed and successful, no id is twice in the success list, each id
\* has the status of the last call made for it, repeating a call changes
\* nothing, and without failures GetErrors is nil and Error() is
\* "successful, no errors".
BatchResultExclusive ==
    \A t \in Tasks :
       pc[t] = "br" =>
          LET br == loc[t].br
          IN  /\ DOMAIN br.errors \cap Range(br.successful) = {}
              /\ \A i, j \in 1..Len(br.successful) :
                    br.successful[i] = br.successful[j] => i = j
              /\ DOMAIN br.errors \cup Range(br.successful) = DOMAIN loc[t].last
              /\ \A id \in DOMAIN loc[t].last :
                    IF loc[t].last[id] = "ok"
                    THEN id \in Range(br.successful)
                    ELSE id \in DOMAIN br.errors /\ br.errors[id] = loc[t].last[id]
              /\ \A id \in BatchIds :
                    /\ BrOK(BrOK(br, id), id) = BrOK(br, id)
                    /\ \A err \in BatchErrs :
                          BrFail(BrFail(br, id, err), id, err) = BrFail(br, id, err)
              /\ DOMAIN br.errors = {} =>
                    /\ DOMAIN BrGetErrors(br) = {}
                    /\ BrError(br).text = "successful, no errors"

\* C31's case: a was failed and then marked ok, b was marked ok and then
\* failed
BatchResultWitness ==
    /\ pc["t1"] = "br"
    /\ loc["t1"].br.successful = << "a" >>
    /\ loc["t1"].br.errors = MapPut(EmptyMap, "b", "e2")
    /\ loc["t1"].flipped = {"a", "b"}

(***************************************************************************)
(* SpecFan: one WriteMsg to two recorders whose order lists disagree.      *)
(***************************************************************************)
\* number of calls explored in one behaviour of SpecFan
FanOps == 5

InitFan ==
    /\ InitState
    /\ falseInit = [l \in Loggers |-> {}]
    /\ nops = FanOps

NextFan ==
    \/ \E id \in Ids : RegisterRecorder("t1", "L1", id, RecOf(id), TRUE)
    \/ Initialise("t1", "L1")
    \/ InitialiseSend("t1")
    \/ InitialiseRecv("t1")
    \/ InitialiseReturn("t1")
    \/ \E id \in Ids : ChangeSeverityOrder("t1", "L1", id, Info, "Before", Error)
    \/ ChangeSeverityOrderCommit("t1")
    \/ \E list \in {<< "a", "b" >>, << "b", "a" >>, << "a" >>} :
          WriteMsg("t1", "L1", list, LogMsg(Error + Info, << "x" >>))
    \/ WriteMsgIter("t1")
    \/ WriteMsgReturn("t1")
    \/ \E r \in Recs : Listen(r)
    \/ \E r \in Recs : RecvCtl(r)
    \/ \E r \in Recs : RecvMsg(r)

SpecFan == InitFan /\ [][NextFan]_vars

\* C32: when one WriteMsg sends a message to several recipients, each
\* recipient gets the first entry of its own order list whose bit is set in
\* the flags the caller submitted, whatever the other recipients and its
\* place in the list.
FanOutSeverity ==
    [][\A t \in Tasks : (IterStep(t) /\ chMsg' # chMsg) =>
          LET l   == loc[t].l
              id  == Head(loc[t].todo)
              rec == recorders[l][id]
          IN  chMsg'[rec][Len(chMsg'[rec])].flags =
                 ExpectedFlags(severityOrder[l][id], loc[t].submitted.flags)]_vars

\* C33: re-initialisation restores the reference: when an Initialise that
\* follows a Close has returned nil, every registered recorder that is
\* listening and has drained its control channel has a reference counter
\* of at least 1, so that it writes the messages the logger accepts.
ReinitialiseRestores ==
    (/\ ret.op = "Initialise" /\ ret.err = Nil
     /\ ret.prev.op = "Close"
     /\ initialised["L1"]) =>
       \A id \in DOMAIN recorders["L1"] :
          LET r == recorders["L1"][id]
          IN  (isListening[r] /\ chCtl[r] = << >>) => refCounter[r] >= 1

\* C34: for every logger and every recorder, the Close signals the logger
\* has sent to the recorder are never more than the successful Init replies
\* it has received from it.
CloseWithinInits ==
    \A l \in Loggers, r \in Recs : hist[r].sent[l] <= hist[r].got[l]

(***************************************************************************)
(* SpecRace: two tasks unregister the same recorder of one logger          *)
(* (src/conc_test.go:28-64).                                               *)
(***************************************************************************)
\* number of calls explored in one behaviour of SpecRace
RaceOps == 5

InitRace ==
    /\ InitState
    /\ falseInit = [l \in Loggers |-> {}]
    /\ nops = RaceOps

NextRace ==
    \/ \E id \in Ids : RegisterRecorder("t1", "L1", id, RecOf(id), TRUE)
    \/ Initialise("t1", "L1")
    \/ InitialiseSend("t1")
    \/ InitialiseRecv("t1")
    \/ InitialiseReturn("t1")
    \/ \E t \in Tasks : UnregisterRecorder(t, "L1", "a")
    \/ \E t \in Tasks : UnregisterSendClose(t)
    \/ \E t \in Tasks : UnregisterCommit(t)
    \/ \E r \in Recs : Listen(r)
    \/ \E r \in Recs : RecvCtl(r)

SpecRace == InitRace /\ [][NextRace]_vars

\* the step on which an UnregisterRecorder call of t returns nil
UnregisterCommitStep(t) ==
    pc[t] = "unreg_lock" /\ pc'[t] = "idle" /\ ret'.err = Nil

\* C35: when two tasks call UnregisterRecorder for the same registered,
\* initialised id, only the call that removes the id returns nil, the
\* logger has then sent the recorder no more Close signals than it got
\* successful Init replies, and initialised is reset only when the registry
\* became empty.
UnregisterRaceFree ==
    [][\A t \in Tasks :
          (UnregisterCommitStep(t) /\ hist[loc[t].rc].sent[loc[t].l] >= 1) =>
             /\ loc[t].id \in DOMAIN recorders[loc[t].l]
             /\ hist'[loc[t].rc].sent[loc[t].l] <= hist'[loc[t].rc].got[loc[t].l]
             /\ (initialised[loc[t].l] /\ ~initialised'[loc[t].l]) =>
                   DOMAIN recorders'[loc[t].l] = {}]_vars

\* C36: the messages WriteMsg accepted for a recorder before the caller's
\* Close are written to the sink: the recorder does not handle the Close
\* ahead of them, so it never takes a message of the logger while its
\* reference counter is 0.
MessagesBeforeClose ==
    [][\A r \in Recs : TakesMsg(r) => refCounter[r] > 0]_vars

(***************************************************************************)
(* SpecLoops: Listen calls whose read of isListening and Set(true) are     *)
(* separate steps, spawned by the user and by the auto start of            *)
(* Initialise.                                                             *)
(***************************************************************************)
\* number of calls explored in one behaviour of SpecLoops
LoopOps == 4

InitLoops ==
    /\ InitState
    /\ falseInit = [l \in Loggers |-> {}]
    /\ nops = LoopOps

NextLoops ==
    \/ \E r \in Recs : ListenCheck(r)
    \/ \E r \in Recs : ListenSet(r)
    \/ \E id \in Ids : RegisterRecorder("t1", "L1", id, RecOf(id), TRUE)
    \/ \E objects \in SUBSET Recs : InitialiseObjects("t1", "L1", objects)
    \/ InitialiseSend("t1")
    \/ InitialiseRecv("t1")
    \/ InitialiseReturn("t1")
    \/ \E r \in Recs : UserSignal(r, "SIG_STOP")
    \/ \E r \in Recs : RecvCtl(r)

SpecLoops == InitLoops /\ [][NextLoops]_vars

\* C37: at most one listener loop runs for a recorder at any time.
OneListenerLoop ==
    \A r \in Recs : listeners[r].running <= 1

\* C38: for every registered recorder the order list is a permutation of
\* the ten severity bits, nothing missing and nothing twice, so that the
\* severity protector finds an entry for every flag word WriteMsg gives it.
OrderIsPermutation ==
    \A l \in Loggers :
       \A id \in DOMAIN recorders[l] :
          /\ id \in DOMAIN severityOrder[l]
          /\ Len(severityOrder[l][id]) = Len(defaultSeverityOrder)
          /\ Range(severityOrder[l][id]) = Range(defaultSeverityOrder)
          /\ \A flags \in OrderFlags :
                severityProtector(severityOrder[l][id], NormaliseSeverity(flags)).err = "nil"

\* C38's case: two ChangeSeverityOrder calls have moved INFO before NOTICE
\* and ERR after NOTICE in the list of the registered recorder a
OrderIsPermutationWitness ==
    /\ "a" \in DOMAIN recorders["L1"]
    /\ ret.op = "ChangeSeverityOrder" /\ ret.err = Nil
    /\ ret.prev.op = "ChangeSeverityOrder" /\ ret.prev.err = Nil
    /\ severityOrder["L1"]["a"] =
          << Emerg, Alert, Critical, Warning, Info, Notice, Error, Debug,
             CustomB1, CustomB2 >>

\* src stands next to trg in the list, on the side asked for
NextTo(orderlist, src, dir, trg) ==
    /\ IndexOf(orderlist, src) > 0 /\ IndexOf(orderlist, trg) > 0
    /\ IF dir = "Before"
       THEN IndexOf(orderlist, src) + 1 = IndexOf(orderlist, trg)
       ELSE IndexOf(orderlist, src) = IndexOf(orderlist, trg) + 1

\* C39: when a ChangeSeverityOrder call returns nil, src stands next to
\* target in the order list registered for the recorder id at that moment,
\* also when UnregisterRecorder and RegisterRecorder of the same id ran
\* between the search and the move of the call: success is never reported
\* over a current list the call left unchanged.
OrderMovesCurrentList ==
    [][\A t \in Tasks :
          (OrderCommitStep(t) /\ loc[t].id \in DOMAIN severityOrder'[loc[t].l]) =>
             NextTo(severityOrder'[loc[t].l][loc[t].id],
                    loc[t].src, loc[t].dir, loc[t].trg)]_vars

(***************************************************************************)
(* SpecLive: two caller tasks register, initialise, write through, close   *)
(* and unregister the recorders of one logger while the recorder loops and *)
(* the reader of the error tap run.  As in TestRaceCondLoggerCalls         *)
(* (src/conc_test.go:172-178) a recorder is registered after its listener  *)
(* was started, and no stop signal is sent.  Every step a task takes after *)
(* its call has started is weakly fair: a goroutine that can run is        *)
(* scheduled.  So are the two cases of the listener's select               *)
(* (src/rec_direct.go:149-200), which Go chooses among at random when both *)
(* are ready, and the reader of the error tap.  Starting a call or a       *)
(* listener is not fair: the user may never do it.                         *)
(***************************************************************************)
\* number of calls explored in one behaviour of SpecLive
LiveOps == 5

InitLive ==
    /\ InitState
    /\ falseInit = [l \in Loggers |-> {}]
    /\ nops = LiveOps

\* the step a task takes next in the call it has started
TaskStep(t) ==
    \/ InitialiseSend(t)
    \/ InitialiseRecv(t)
    \/ InitialiseReturn(t)
    \/ CloseSend(t)
    \/ CloseReturn(t)
    \/ UnregisterSendClose(t)
    \/ UnregisterCommit(t)
    \/ WriteMsgIter(t)
    \/ WriteMsgReturn(t)

NextLive ==
    \/ \E id \in Ids :
          /\ listeners[RecOf(id)].running > 0
          /\ RegisterRecorder("t1", "L1", id, RecOf(id), TRUE)
    \/ \E t \in Tasks : Initialise(t, "L1")
    \/ \E t \in Tasks : Close(t, "L1")
    \/ \E t \in Tasks : UnregisterRecorder(t, "L1", "a")
    \/ \E t \in Tasks : Write(t, "L1", Emerg, "x")
    \/ \E t \in Tasks : TaskStep(t)
    \/ UserSignal(RecOf("a"), "SIG_SET_ERR")
    \/ \E r \in Recs : Listen(r)
    \/ \E r \in Recs : RecvCtl(r)
    \/ \E r \in Recs : RecvMsg(r)
    \/ \E r \in Recs : TapRead(r)

FairLive ==
    /\ \A t \in Tasks : WF_vars(TaskStep(t))
    /\ \A r \in Recs :
          /\ WF_vars(RecvCtl(r))
          /\ WF_vars(RecvMsg(r))
          /\ WF_vars(TapRead(r))

SpecLive == InitLive /\ [][NextLive]_vars /\ FairLive

\* the listener of every registered recorder is running
ListenersRun ==
    \A l \in Loggers : \A id \in DOMAIN recorders[l] :
       listeners[recorders[l][id]].running > 0 /\ ~panicked[recorders[l][id]]

\* C40: with the listener of every registered recorder running and the
\* error tap drained, every call of Initialise, Close, UnregisterRecorder
\* and Write that is under way eventually returns, and the logger's lock is
\* always released again: no caller waits forever on the lock, on a control
\* or message channel or on the Init reply.
CallsReturn ==
    /\ \A t \in Tasks : (pc[t] # "idle") ~> (pc[t] = "idle")
    /\ \A l \in Loggers :
          (mutex[l].writer \/ mutex[l].readers > 0) ~>
             (~mutex[l].writer /\ mutex[l].readers = 0)

\* C40's case: with the listeners running, t1 holds the write lock in
\* Initialise and awaits the Init reply while t2 is in UnregisterRecorder
\* and waits for the write lock
CallsReturnWitness ==
    /\ ListenersRun
    /\ pc["t1"] = "init_wait" /\ mutex["L1"].writer
    /\ pc["t2"] = "unreg_lock"
    /\ DOMAIN recorders["L1"] = {"a", "b"}

=============================================================================
